---------------------------- MODULE Spec2Model ----------------------------
(***************************************************************************)
(* Text2SQL agent: the LangGraph workflow of backend/src/app/agent and the *)
(* endpoints, validators, executor, session store and schema cache around  *)
(* it.                                                                     *)
(*                                                                         *)
(* Workflow state.  Text2SQLAgentState is a dict of sections               *)
(* (state["generation"]["generated_query"]) with the channel `messages`;   *)
(* create_initial_state, schema_retrieval.py, query_validation.py and      *)
(* query_execution.py read and write it that way.  graph.py,               *)
(* query_generation.py, user_confirmation.py and response_formatting.py    *)
(* read and return the fields under their own names                        *)
(* (state.get("generated_query")).  `state` is the dict as the graph holds *)
(* it: a key a node returns replaces the channel of that name whole, and a *)
(* key that names no channel is not written.                               *)
(*                                                                         *)
(* SQL text is a sequence of tokens; adjacent tokens are separated by one   *)
(* space in the text the token sequence stands for, except that the token  *)
(* "\n" is a line break with no space before or after it.                  *)
(***************************************************************************)
EXTENDS Naturals, Integers, Sequences, FiniteSets, TLC

VARIABLES
    call,            \* a direct call of a function: the function and its arguments
    ret,             \* what that call returned, NoCall before it returns
    globals,         \* module-level objects of the backend process and the database session
                     \* behind its connection, one entry per object
    tasks            \* coroutines in flight on the event loop: position and local variables

vars == <<call, ret, globals, tasks>>

-----------------------------------------------------------------------------
(* Program constants *)

MAX_VALIDATION_RETRIES == 3

max_generation_attempts == 3

DANGEROUS_KEYWORDS ==
    {"UPDATE", "DELETE", "INSERT", "TRUNCATE", "MERGE", "UPSERT", "DROP", "ALTER",
     "CREATE", "RENAME", "GRANT", "REVOKE", "EXEC", "EXECUTE", "CALL", "COPY",
     "VACUUM", "ANALYZE", "REINDEX", "CLUSTER", "REFRESH", "COMMIT", "ROLLBACK",
     "SAVEPOINT", "SET", "RESET", "LOAD"}

\* SQL_KEYWORDS of schema_validator.py
SQL_KEYWORDS ==
    {"SELECT", "FROM", "WHERE", "AND", "OR", "NOT", "IN", "EXISTS", "BETWEEN", "LIKE",
     "IS", "NULL", "TRUE", "FALSE", "AS", "ON", "JOIN", "LEFT", "RIGHT", "INNER",
     "OUTER", "FULL", "CROSS", "GROUP", "BY", "ORDER", "HAVING", "LIMIT", "OFFSET",
     "UNION", "ALL", "DISTINCT", "CASE", "WHEN", "THEN", "ELSE", "END", "CAST",
     "COALESCE", "NULLIF", "WITH", "RECURSIVE", "ASC", "DESC", "OVER", "PARTITION",
     "ROW", "ROWS", "RANGE", "PRECEDING", "FOLLOWING", "UNBOUNDED", "CURRENT", "FIRST",
     "LAST", "FILTER", "WITHIN", "LATERAL", "NATURAL", "USING", "INTERVAL", "EXTRACT",
     "EPOCH", "NOW", "DATE", "TIME", "TIMESTAMP", "YEAR", "MONTH", "DAY", "HOUR",
     "MINUTE", "SECOND", "COUNT", "SUM", "AVG", "MAX", "MIN", "ARRAY", "ANY", "SOME",
     "BOOLEAN", "INTEGER", "BIGINT", "SMALLINT", "NUMERIC", "DECIMAL", "REAL", "FLOAT",
     "DOUBLE", "PRECISION", "VARCHAR", "CHAR", "TEXT", "SERIAL", "PRIMARY", "KEY",
     "FOREIGN", "REFERENCES", "UNIQUE", "CHECK", "DEFAULT", "CONSTRAINT"}

-----------------------------------------------------------------------------
(* Inputs of the model: the schema snapshot, the principals and the SQL    *)
(* texts the generator or the user can produce.                            *)

\* tables of the database schema snapshot (get_database_schema)
DbTables == {"orders", "drivers"}

\* columns of the tables of the snapshot
DbColumns(table) ==
    CASE table = "orders" -> {"id", "total", "token"}
      [] table = "drivers" -> {"id", "name"}
      [] OTHER -> {}

\* table names a role-permission row can name; "ghost" is in no snapshot
AllTables == {"orders", "drivers", "ghost"}

AccessibleChoices == SUBSET AllTables

\* what the keyword tests of query_generation_node make of user_question
QuestionKinds == {"normal", "reset", "ambiguous", "context"}

NoQuery == << >>

Queries ==
    { <<"SELECT", "*", "FROM", "orders">>,
      <<"SELECT", "*", "FROM", "drivers">>,
      <<"SELECT", "*", "FROM", "orders", ",", "drivers">>,
      <<"SELECT", "*", "FROM", "orders", "JOIN", "Drivers">>,
      <<"select", "*", "from", "ghost">>,
      <<"UPDATE", "orders", "SET", "total">>,
      <<"DELETE", "FROM", "ghost">>,
      <<"SELECT", "token", "FROM", "orders">>,
      <<"SELECT", "token", "FROM", "ghost">>,
      <<"SELECT", "name", "FROM", "orders">>,
      <<"SELECT", "*", "FROM", "orders", "MODIFY">> }

\* the tokens of the alphabet that match [a-zA-Z_][a-zA-Z0-9_]* whole
Words ==
    {"AS", "bogus", "DELETE", "delete", "Drivers", "drivers", "drop", "FROM", "from",
     "ghost", "id", "IN", "information_schema", "JOIN", "MODIFY", "modify", "name", "ON",
     "OR", "orders", "password_hash", "pg_shadow", "please", "recent", "SELECT", "select",
     "SET", "this", "token", "total", "UPDATE", "WHERE", "WITH"}

\* str.upper() on the tokens of the alphabet and on what str.lower() makes
\* of them
Upper(t) ==
    CASE t = "\"orders\"" -> "\"ORDERS\""
      [] t = "as" -> "AS"
      [] t = "bogus" -> "BOGUS"
      [] t = "delete" -> "DELETE"
      [] t \in {"Drivers", "drivers"} -> "DRIVERS"
      [] t = "drop" -> "DROP"
      [] t = "from" -> "FROM"
      [] t = "ghost" -> "GHOST"
      [] t = "id" -> "ID"
      [] t = "in" -> "IN"
      [] t = "information_schema" -> "INFORMATION_SCHEMA"
      [] t = "join" -> "JOIN"
      [] t = "modify" -> "MODIFY"
      [] t = "name" -> "NAME"
      [] t = "on" -> "ON"
      [] t = "or" -> "OR"
      [] t = "orders" -> "ORDERS"
      [] t = "password_hash" -> "PASSWORD_HASH"
      [] t = "pg_shadow" -> "PG_SHADOW"
      [] t = "please" -> "PLEASE"
      [] t = "recent" -> "RECENT"
      [] t = "select" -> "SELECT"
      [] t = "set" -> "SET"
      [] t = "this" -> "THIS"
      [] t = "token" -> "TOKEN"
      [] t = "total" -> "TOTAL"
      [] t = "update" -> "UPDATE"
      [] t = "where" -> "WHERE"
      [] t = "with" -> "WITH"
      [] OTHER -> t

\* str.lower() on the tokens of the alphabet and on what str.upper() makes
\* of them
Lower(t) ==
    CASE t = "\"ORDERS\"" -> "\"orders\""
      [] t = "AS" -> "as"
      [] t = "BOGUS" -> "bogus"
      [] t = "DELETE" -> "delete"
      [] t \in {"DRIVERS", "Drivers"} -> "drivers"
      [] t = "DROP" -> "drop"
      [] t = "FROM" -> "from"
      [] t = "GHOST" -> "ghost"
      [] t = "ID" -> "id"
      [] t = "IN" -> "in"
      [] t = "INFORMATION_SCHEMA" -> "information_schema"
      [] t = "JOIN" -> "join"
      [] t = "MODIFY" -> "modify"
      [] t = "NAME" -> "name"
      [] t = "ON" -> "on"
      [] t = "OR" -> "or"
      [] t = "ORDERS" -> "orders"
      [] t = "PASSWORD_HASH" -> "password_hash"
      [] t = "PG_SHADOW" -> "pg_shadow"
      [] t = "PLEASE" -> "please"
      [] t = "RECENT" -> "recent"
      [] t = "SELECT" -> "select"
      [] t = "SET" -> "set"
      [] t = "THIS" -> "this"
      [] t = "TOKEN" -> "token"
      [] t = "TOTAL" -> "total"
      [] t = "UPDATE" -> "update"
      [] t = "WHERE" -> "where"
      [] t = "WITH" -> "with"
      [] OTHER -> t

Range(s) == {s[i] : i \in 1..Len(s)}


\* str(e) of the exception a driver or a client raises
ExceptionTexts == {"connection refused", "password authentication failed"}

\* an error message: its template, the table names it lists and the
\* exception text it ends with ("None" when the template takes none)
Msg(m, tabs) == [msg |-> m, tables |-> tabs, detail |-> "None"]

\* a message whose template is filled with str(e)
MsgOf(m, e) == [msg |-> m, tables |-> {}, detail |-> e]

NoError == Msg("None", {})

\* the empty string where an error message is expected
EmptyMessage == Msg("", {})

\* Python truthiness of an error message: None and "" are falsy
Truthy(e) == e.msg \notin {"None", ""}

\* a final response: the fixed text it is built around and the error
\* message it quotes (NoError when it quotes none)
Response(text, quoted) == [text |-> text, quoted |-> quoted]

NoFinalResponse == Response("", NoError)

-----------------------------------------------------------------------------
(* Validation layers *)

\* the suffix of query that starts at its first token equal to stop, << >>
\* when it has none
RECURSIVE SuffixAt(_, _)
SuffixAt(query, stop) ==
    IF query = << >> THEN << >>
    ELSE IF Head(query) = stop THEN query
    ELSE SuffixAt(Tail(query), stop)

\* re.sub(r"--[^\n]*", "", query): a line comment ends before the line break
RECURSIVE RemoveLineComments(_)
RemoveLineComments(query) ==
    IF query = << >> THEN << >>
    ELSE IF Head(query) = "--" THEN RemoveLineComments(SuffixAt(Tail(query), "\n"))
    ELSE <<Head(query)>> \o RemoveLineComments(Tail(query))

\* re.sub(r"/\*[\s\S]*?\*/", "", query): a block comment needs its closing mark
RECURSIVE RemoveBlockComments(_)
RemoveBlockComments(query) ==
    IF query = << >> THEN << >>
    ELSE IF Head(query) = "/*" /\ SuffixAt(Tail(query), "*/") # << >>
    THEN RemoveBlockComments(Tail(SuffixAt(Tail(query), "*/")))
    ELSE <<Head(query)>> \o RemoveBlockComments(Tail(query))

\* KeywordValidator._remove_comments
remove_comments(query) == RemoveBlockComments(RemoveLineComments(query))

\* str.strip() of the text: leading and trailing line breaks go
RECURSIVE Strip(_)
Strip(query) ==
    IF query = << >> THEN << >>
    ELSE IF Head(query) = "\n" THEN Strip(Tail(query))
    ELSE IF query[Len(query)] = "\n" THEN Strip(SubSeq(query, 1, Len(query) - 1))
    ELSE query

\* KeywordValidator.validate: string literals stay in the text that is searched
KeywordValidate(query) ==
    LET cleaned_query == remove_comments(query)
        detected == {Upper(t) : t \in Range(cleaned_query)} \cap DANGEROUS_KEYWORDS
        normalized == Strip(cleaned_query)
    IN  IF Strip(query) = << >>
        THEN [is_valid |-> FALSE, detected_keywords |-> {}, error_message |-> "empty_query"]
        ELSE IF detected # {}
        THEN [is_valid |-> FALSE, detected_keywords |-> detected, error_message |-> "keyword"]
        ELSE IF normalized = << >> \/ Upper(normalized[1]) \notin {"SELECT", "WITH"}
        THEN [is_valid |-> FALSE, detected_keywords |-> {}, error_message |-> "select_only"]
        ELSE [is_valid |-> TRUE, detected_keywords |-> {}, error_message |-> "None"]

\* COMMENT_PATTERN.sub(" ", query): one pass over both comment forms
RECURSIVE RemoveComments(_)
RemoveComments(query) ==
    IF query = << >> THEN << >>
    ELSE IF Head(query) = "--" THEN RemoveComments(SuffixAt(Tail(query), "\n"))
    ELSE IF Head(query) = "/*" /\ SuffixAt(Tail(query), "*/") # << >>
    THEN RemoveComments(Tail(SuffixAt(Tail(query), "*/")))
    ELSE <<Head(query)>> \o RemoveComments(Tail(query))

\* the tokens of the alphabet that are a text in double quotes
DoubleQuoted == {"\"orders\""}

\* STRING_LITERAL_PATTERN.sub(" ", query): the text from a single quote to
\* the next one, or a text in double quotes
RECURSIVE RemoveStringLiterals(_)
RemoveStringLiterals(query) ==
    IF query = << >> THEN << >>
    ELSE IF Head(query) = "'" /\ SuffixAt(Tail(query), "'") # << >>
    THEN RemoveStringLiterals(Tail(SuffixAt(Tail(query), "'")))
    ELSE IF Head(query) \in DoubleQuoted
    THEN RemoveStringLiterals(Tail(query))
    ELSE <<Head(query)>> \o RemoveStringLiterals(Tail(query))

IsLexeme(t) == t # "\n"

\* _clean_query, as the tokens the patterns see between white space
clean_query(query) ==
    SelectSeq(RemoveStringLiterals(RemoveComments(query)), IsLexeme)

\* the tokens (?:\s+(?:AS\s+)?([a-zA-Z_][a-zA-Z0-9_]*))? takes after token i:
\* AS and an identifier, an identifier alone (AS itself when no identifier
\* follows it), or nothing
AliasTokens(text, i) ==
    IF i + 2 <= Len(text) /\ Upper(text[i + 1]) = "AS" /\ text[i + 2] \in Words THEN 2
    ELSE IF i + 1 <= Len(text) /\ text[i + 1] \in Words THEN 1
    ELSE 0

\* finditer of r"\bKW\s+(identifier)(alias)?" from token i on: the positions of
\* the identifiers matched; a match starts where the one before it ended
RECURSIVE TableMatches(_, _, _)
TableMatches(text, kw, i) ==
    IF i + 1 > Len(text) THEN {}
    ELSE IF Upper(text[i]) = kw /\ text[i + 1] \in Words
    THEN {i + 1} \cup TableMatches(text, kw, i + 2 + AliasTokens(text, i + 1))
    ELSE TableMatches(text, kw, i + 1)

\* _extract_table_references: the identifier after FROM or JOIN, lower-cased,
\* unless it is an SQL keyword
ExtractTableReferences(query) ==
    LET cleaned == clean_query(query)
    IN  { Lower(cleaned[p]) :
              p \in { m \in TableMatches(cleaned, "FROM", 1) \cup TableMatches(cleaned, "JOIN", 1) :
                          Upper(cleaned[m]) \notin SQL_KEYWORDS } }

\* position of the first token that upper-cases to kw, 0 when there is none
FirstPos(query, kw) ==
    LET at == {i \in 1..Len(query) : Upper(query[i]) = kw}
    IN  IF at = {} THEN 0 ELSE CHOOSE i \in at : \A j \in at : i <= j

\* the tokens between SELECT and the FROM after it
SelectClause(query) ==
    LET sel == FirstPos(query, "SELECT")
        frm == {i \in 1..Len(query) : Upper(query[i]) = "FROM" /\ i > sel + 1}
    IN  IF sel = 0 \/ frm = {} THEN << >>
        ELSE SubSeq(query, sel + 1, (CHOOSE i \in frm : \A j \in frm : i <= j) - 1)

\* finditer of column_pattern over the SELECT list from token i on: the
\* positions of the columns matched, each match taking its alias with it
RECURSIVE ColumnMatches(_, _)
ColumnMatches(select_clause, i) ==
    IF i > Len(select_clause) THEN {}
    ELSE IF select_clause[i] \in Words
    THEN {i} \cup ColumnMatches(select_clause, i + 1 + AliasTokens(select_clause, i))
    ELSE ColumnMatches(select_clause, i + 1)

\* _extract_column_references: the unqualified columns of the SELECT list that
\* are no SQL keyword, none for SELECT * and SELECT DISTINCT * (the token
\* alphabet has no qualified column)
ExtractColumnReferences(query) ==
    LET select_clause == SelectClause(clean_query(query))
    IN  IF \/ select_clause = <<"*">>
           \/ Len(select_clause) = 2 /\ Upper(select_clause[1]) = "DISTINCT"
                                     /\ select_clause[2] = "*"
        THEN {}
        ELSE { Lower(select_clause[p]) :
                   p \in { m \in ColumnMatches(select_clause, 1) :
                               Upper(select_clause[m]) \notin SQL_KEYWORDS } }

\* validate_query_schema
SchemaValidate(query, schema) ==
    LET referenced == ExtractTableReferences(query)
        invalid_tables == referenced \ {Lower(t) : t \in schema}
        invalid_columns ==
            { c \in ExtractColumnReferences(query) :
                  referenced # {} /\ \A t \in referenced : c \notin DbColumns(t) }
    IN  IF invalid_tables # {}
        THEN [is_valid |-> FALSE, invalid_tables |-> invalid_tables,
              invalid_columns |-> {}, error_message |-> "schema"]
        ELSE IF invalid_columns # {}
        THEN [is_valid |-> FALSE, invalid_tables |-> {},
              invalid_columns |-> invalid_columns, error_message |-> "schema"]
        ELSE [is_valid |-> TRUE, invalid_tables |-> {},
              invalid_columns |-> {}, error_message |-> "None"]

(* The rule-based checks of the semantic layer *)

\* the entries of system_table_patterns and sensitive_columns that the
\* upper-cased token contains as a substring (each token of this alphabet
\* that contains an entry also starts with it)
PatternsIn(t) ==
    CASE t \in {"token", "TOKEN"} -> {"TOKEN"}
      [] t = "password_hash" -> {"PASSWORD"}
      [] t = "pg_shadow" -> {"PG_SHADOW"}
      [] t = "information_schema" -> {"INFORMATION_SCHEMA"}
      [] OTHER -> {}

\* system_table_patterns
system_table_patterns ==
    {"PG_CATALOG", "INFORMATION_SCHEMA", "PG_STAT", "PG_CLASS", "PG_ROLES", "PG_USER",
     "PG_SHADOW"}

\* sensitive_columns
sensitive_columns ==
    {"PASSWORD", "PASSWD", "SECRET", "TOKEN", "API_KEY", "APIKEY", "PRIVATE_KEY",
     "CREDIT_CARD", "SSN", "SOCIAL_SECURITY"}

\* pattern in query_upper
InText(query, patterns) ==
    \E i \in 1..Len(query) : PatternsIn(query[i]) \cap patterns # {}

\* "SELECT" in query_upper
HasSelect(query) == \E i \in 1..Len(query) : Upper(query[i]) = "SELECT"

\* "SELECT " in query_upper: a SELECT with a space after it
HasSelectSpace(query) ==
    \E i \in 1..(Len(query) - 1) : Upper(query[i]) = "SELECT" /\ query[i + 1] # "\n"

\* f", {col}" in query_upper
AfterComma(query, col) ==
    \E i \in 1..(Len(query) - 1) : query[i] = "," /\ col \in PatternsIn(query[i + 1])

\* the test of validate_query_semantic_sync on sensitive_columns
SensitiveSelected(query) ==
    \E col \in sensitive_columns :
        /\ HasSelect(query) /\ InText(query, {col})
        /\ HasSelectSpace(query) \/ AfterComma(query, col)

\* validate_query_semantic_sync(query)
validate_query_semantic_sync(query) ==
    IF InText(query, system_table_patterns)
    THEN [is_valid |-> FALSE, is_dangerous |-> TRUE, error_message |-> "system_table"]
    ELSE IF SensitiveSelected(query)
    THEN [is_valid |-> FALSE, is_dangerous |-> TRUE, error_message |-> "sensitive_column"]
    ELSE IF Cardinality({i \in 1..Len(query) : query[i] = ";"}) > 1
    THEN [is_valid |-> FALSE, is_dangerous |-> TRUE, error_message |-> "multiple_queries"]
    ELSE [is_valid |-> TRUE, is_dangerous |-> FALSE, error_message |-> "None"]

\* the statement holds OR 1 = 1
HasTautology(query) ==
    \E i \in 1..(Len(query) - 3) :
        SubSeq(query, i, i + 3) = <<"OR", "1", "=", "1">>

\* the statement holds a -- whose comment runs to the end of its line
HasDanglingComment(query) == \E i \in 1..Len(query) : query[i] = "--"

\* a ; of the statement is followed by more text
HasFurtherStatement(query) ==
    \E i \in 1..(Len(query) - 1) : query[i] = ";"

\* the statement names a system catalog
NamesSystemCatalog(query) ==
    \E i \in 1..Len(query) :
        PatternsIn(query[i]) \cap {"PG_CATALOG", "INFORMATION_SCHEMA", "PG_SHADOW", "PG_ROLES"} # {}

\* a sensitive column name stands in the projection list
SensitiveInProjection(query) ==
    \E i \in 1..Len(SelectClause(query)) :
        PatternsIn(SelectClause(query)[i]) \cap {"PASSWORD", "SECRET", "TOKEN", "API_KEY",
                                                 "CREDIT_CARD", "SSN"} # {}

\* what the pattern pre-filter is specified to reject: an injection marker
\* (OR 1=1, a dangling --, a ; followed by more), a system catalog, or a
\* sensitive column name in the projection list
MustBeRejected(query) ==
    \/ HasTautology(query)
    \/ HasDanglingComment(query)
    \/ HasFurtherStatement(query)
    \/ NamesSystemCatalog(query)
    \/ SensitiveInProjection(query)

\* quick_pattern_check, which validate_query_pipeline imports and calls and
\* which is not in src/: TRUE when the statement passes the pattern
\* pre-filter as it is specified, that is, holds none of the five kinds of
\* markers
PatternSafe(query) == ~MustBeRejected(query)

\* variant of validate_query_semantic that rejects when the call raises
SemanticValidateFailClosed(verdict) ==
    [is_valid |-> verdict = "approve",
     error_message |-> IF verdict = "approve" THEN "None" ELSE "semantic"]

\* validate_query_semantic: the LLM's verdict, failing open when the call raises
SemanticValidate(verdict) ==
    [is_valid |-> verdict # "reject",
     error_message |-> IF verdict = "reject" THEN "semantic" ELSE "None"]

LlmVerdicts == {"approve", "reject", "error"}

\* SchemaValidator(schema).validate(query): validate_query_pipeline imports
\* the class from schema_validator.py, which does not define it; it is taken
\* to decide as validate_query_schema, the function that module holds
SchemaValidatorValidate(query, schema) == SchemaValidate(query, schema)

\* SemanticValidator(llm).validate(query), after quick_pattern_check passed:
\* the class is imported from semantic_validator.py, which does not define
\* it; it is taken to decide as validate_query_semantic, the function that
\* module holds
SemanticValidatorValidate(verdict) == SemanticValidate(verdict)

\* the llm argument of validate_query_pipeline: None or a chat model
LlmChoices == {"None", "fast_model"}

\* variant of validate_query_pipeline that runs every layer and reports the
\* last failing one
ValidatePipelineAllLayers(query, schema, llm, skip_semantic, verdict) ==
    LET kw == KeywordValidate(query)
        sc == SchemaValidatorValidate(query, schema)
        sem == SemanticValidatorValidate(verdict)
        all == <<"keyword", "schema", "pattern", "llm">>
    IN  IF ~sem.is_valid
        THEN [is_valid |-> FALSE, blocked_at_layer |-> "semantic",
              error_message |-> sem.error_message, layers |-> all]
        ELSE IF ~PatternSafe(query)
        THEN [is_valid |-> FALSE, blocked_at_layer |-> "semantic",
              error_message |-> "security", layers |-> all]
        ELSE IF ~sc.is_valid
        THEN [is_valid |-> FALSE, blocked_at_layer |-> "schema",
              error_message |-> sc.error_message, layers |-> all]
        ELSE IF ~kw.is_valid
        THEN [is_valid |-> FALSE, blocked_at_layer |-> "keyword",
              error_message |-> kw.error_message, layers |-> all]
        ELSE [is_valid |-> TRUE, blocked_at_layer |-> "None",
              error_message |-> "None", layers |-> all]

\* validate_query_pipeline; `llm` is "None" or the chat model of the semantic
\* layer, `verdict` what that model answers; `layers` lists the validators it
\* invoked, in order. Of the callables it invokes, KeywordValidator is in
\* src/; SchemaValidator, quick_pattern_check and SemanticValidator are not
ValidatePipeline(query, schema, llm, skip_semantic, verdict) ==
    LET kw == KeywordValidate(query)
        sc == SchemaValidatorValidate(query, schema)
        sem == SemanticValidatorValidate(verdict)
    IN  IF ~kw.is_valid
        THEN [is_valid |-> FALSE, blocked_at_layer |-> "keyword",
              error_message |-> kw.error_message, layers |-> <<"keyword">>]
        ELSE IF ~sc.is_valid
        THEN [is_valid |-> FALSE, blocked_at_layer |-> "schema",
              error_message |-> sc.error_message, layers |-> <<"keyword", "schema">>]
        ELSE IF skip_semantic \/ llm = "None"
        THEN [is_valid |-> TRUE, blocked_at_layer |-> "None",
              error_message |-> "None", layers |-> <<"keyword", "schema">>]
        ELSE IF ~PatternSafe(query)
        THEN [is_valid |-> FALSE, blocked_at_layer |-> "semantic",
              error_message |-> "security", layers |-> <<"keyword", "schema", "pattern">>]
        ELSE IF ~sem.is_valid
        THEN [is_valid |-> FALSE, blocked_at_layer |-> "semantic",
              error_message |-> sem.error_message,
              layers |-> <<"keyword", "schema", "pattern", "llm">>]
        ELSE [is_valid |-> TRUE, blocked_at_layer |-> "None",
              error_message |-> "None",
              layers |-> <<"keyword", "schema", "pattern", "llm">>]

-----------------------------------------------------------------------------
(* Permission gate *)

\* finditer of r"\bKW\s+([a-zA-Z_][a-zA-Z0-9_]*)" from token i on: the positions
\* of the identifiers matched; a match starts where the one before it ended
RECURSIVE KeywordMatches(_, _, _)
KeywordMatches(text, kw, i) ==
    IF i + 1 > Len(text) THEN {}
    ELSE IF Upper(text[i]) = kw /\ text[i + 1] \in Words
    THEN {i + 1} \cup KeywordMatches(text, kw, i + 2)
    ELSE KeywordMatches(text, kw, i + 1)

\* extract_tables_from_query: the identifier after FROM, JOIN, INTO or UPDATE,
\* lower-cased; \s+ takes line breaks as it takes spaces
extract_tables_from_query(sql_query) ==
    LET text == SelectSeq(sql_query, IsLexeme)
    IN  { Lower(text[p]) :
              p \in UNION { KeywordMatches(text, kw, 1) :
                               kw \in {"FROM", "JOIN", "INTO", "UPDATE"} } }

\* the referenced tables that are not in accessible_tables (compared lower-cased)
UnauthorizedTables(query, accessible_tables) ==
    { t \in extract_tables_from_query(query) :
          Lower(t) \notin {Lower(a) : a \in accessible_tables} }

\* variant of the filter that lets the whole schema through for an empty list
filter_schema_open_when_empty(schema, accessible_tables) ==
    IF accessible_tables = {}
    THEN schema
    ELSE { t \in schema : Lower(t) \in {Lower(a) : a \in accessible_tables} }

\* filter_schema_by_accessible_tables
filter_schema_by_accessible_tables(schema, accessible_tables) ==
    IF accessible_tables = {}
    THEN {}
    ELSE { t \in schema : Lower(t) \in {Lower(a) : a \in accessible_tables} }

-----------------------------------------------------------------------------
(* Workflow state: a Python dict, a function on the keys it holds *)

\* d.get(k, default)
Get(d, k, default) == IF k \in DOMAIN d THEN d[k] ELSE default

\* {}
EmptyDict == << >>

\* what a node does instead of returning a dict when an exception leaves it
\* (graph.astream re-raises it) or when it calls interrupt() with no resume
\* value at hand (the graph stops in front of the node)
Raises(exception, key) == [exception |-> exception, key |-> key]

Interrupt(confirmation_request) == [interrupt |-> confirmation_request]

IsRaise(update) == "exception" \in DOMAIN update

IsInterrupt(update) == "interrupt" \in DOMAIN update

\* create_initial_state: the sectioned layout of Text2SQLAgentState; the
\* fields of a section that no node reads (session_id, llm_provider, user_id,
\* user_roles, query_explanation, query_result, result_columns,
\* execution_time_ms) and the debug section are left out
create_initial_state(user_question, accessible_tables) ==
    [ input      |-> [user_question |-> user_question],
      auth       |-> [accessible_tables |-> accessible_tables],
      schema     |-> [database_schema |-> {}, relevant_tables |-> {}],
      generation |-> [generated_query |-> NoQuery, generation_attempt |-> 0, query_id |-> ""],
      validation |-> [validation_errors |-> << >>, is_query_valid |-> FALSE],
      execution  |-> [total_row_count |-> 0, execution_error |-> NoError],
      response   |-> [user_approved |-> "None", final_response |-> NoFinalResponse,
                      response_format |-> "table"],
      messages   |-> << >> ]

\* the keys of Text2SQLAgentState: the channels of StateGraph(Text2SQLAgentState)
Channels ==
    {"input", "auth", "schema", "generation", "validation", "execution", "response",
     "debug", "messages"}

\* variant in which every state update drops the accessible-table list, as a
\* stage that re-fetched it for an anonymous principal would
MergeDroppingAccess(st, update) ==
    [k \in DOMAIN st \cup (DOMAIN update \cap {"input", "auth", "schema", "generation",
                                              "validation", "execution", "response",
                                              "debug", "messages"}) |->
        IF k = "auth" THEN [accessible_tables |-> {}]
        ELSE IF k \in DOMAIN update THEN update[k] ELSE st[k]]

\* the graph applying the dict a node returned: a key that is a channel
\* replaces the channel's value whole (a section is not merged field by
\* field), a key that is no channel is not written.  query_generation_node
\* returns the whole history with the two new messages at its end, which
\* is what add_messages makes of it
Merge(st, update) ==
    [k \in DOMAIN st \cup (DOMAIN update \cap Channels) |->
        IF k \in DOMAIN update THEN update[k] ELSE st[k]]

\* update_generation(state, generation_attempt=n)
update_generation(st, generation_attempt) ==
    LET current == Get(st, "generation", EmptyDict)
    IN  [generated_query |-> Get(current, "generated_query", NoQuery),
         generation_attempt |-> generation_attempt,
         query_id |-> Get(current, "query_id", "")]

\* update_validation(state, is_query_valid=v, validation_errors=errors)
update_validation(st, is_query_valid, validation_errors) ==
    [validation_errors |-> validation_errors, is_query_valid |-> is_query_valid]

-----------------------------------------------------------------------------
(* Nodes: each returns the dict it hands back to the graph.  The debug     *)
(* section that with_debug_timing adds to the dict of schema_retrieval,    *)
(* query_validation and query_execution is left out with the section.      *)

\* str(e) of the DatabaseConnectionError get_pool raises when no pool was created
NoPoolText == "pool not initialised"

\* get_database_schema: it returns the snapshot or raises.  `wraps` is the
\* number of DatabaseConnectionError layers around the text: get_pool raises
\* one when there is no pool, get_connection raises one in the place of an
\* asyncpg.PostgresError of the catalog queries (str(e) is then
\* "데이터베이스 연결 오류: " and the driver's text), and any other exception
\* passes as it is
FetchOutcomes ==
    {[raises |-> FALSE, wraps |-> 0, text |-> "None"]}
    \cup {[raises |-> TRUE, wraps |-> w, text |-> e] : w \in {0, 1}, e \in ExceptionTexts}
    \cup {[raises |-> TRUE, wraps |-> 1, text |-> NoPoolText]}

\* schema_retrieval_node; state["input"] is read before the try, state["auth"]
\* inside it
schema_retrieval_node(st, fetch) ==
    LET failed(e) == [schema |-> [database_schema |-> {}, relevant_tables |-> {}],
                      execution |-> [execution_error |-> e]]
    IN  IF "input" \notin DOMAIN st
        THEN Raises("KeyError", "input")
        ELSE IF fetch.raises
        THEN failed(MsgOf(IF fetch.wraps = 1 THEN "schema_unavailable: ConnectionError"
                          ELSE "schema_unavailable", fetch.text))
        ELSE IF "auth" \notin DOMAIN st
        THEN failed(MsgOf("schema_unavailable", "'auth'"))
        ELSE LET accessible_tables == st.auth.accessible_tables
                 schema == IF accessible_tables # {}
                           THEN filter_schema_by_accessible_tables(DbTables, accessible_tables)
                           ELSE DbTables
             IN  IF accessible_tables # {} /\ schema = {}
                 THEN failed(Msg("permission_denied", {}))
                 ELSE [schema |-> [database_schema |-> schema, relevant_tables |-> schema]]

\* what llm.ainvoke and _parse_llm_response yield: an exception, no SQL, or a statement
LlmOutcomes ==
    {[raises |-> TRUE, sql |-> NoQuery, text |-> e] : e \in ExceptionTexts}
    \cup {[raises |-> FALSE, sql |-> q, text |-> "None"] : q \in Queries \cup {NoQuery}}

\* variant of the failure dict that restarts the attempt count
GenerationFailedRestarting(attempt, e) ==
    [generation_attempt |-> 0, generated_query |-> NoQuery, execution_error |-> e]

\* the dict query_generation_node returns when it has no statement
GenerationFailed(attempt, e) ==
    [generation_attempt |-> attempt, generated_query |-> NoQuery, execution_error |-> e]

\* TRUE when query_generation_node gets as far as llm.ainvoke
ReachesLlm(st) ==
    /\ "user_question" \in DOMAIN st
    /\ Get(st, "accessible_tables", {}) # {}
    /\ st.user_question # "reset"
    /\ ~(st.user_question = "context" /\ Get(st, "messages", << >>) = << >>)
    /\ ~(Get(st, "generation_attempt", 0) + 1 = 1 /\ st.user_question = "ambiguous")
    /\ Get(st, "generation_attempt", 0) + 1 <= max_generation_attempts
    /\ "database_schema" \in DOMAIN st

\* query_generation_node; state["user_question"] is read before any branch
\* and outside the try, state["database_schema"] inside it
query_generation_node(st, llm) ==
    LET attempt == Get(st, "generation_attempt", 0) + 1
        message_history == Get(st, "messages", << >>)
        accessible_tables == Get(st, "accessible_tables", {})
    IN  IF "user_question" \notin DOMAIN st
        THEN Raises("KeyError", "user_question")
        ELSE IF accessible_tables = {}
        THEN GenerationFailed(attempt, Msg("permission_denied", {}))
        ELSE IF st.user_question = "reset"
        THEN [generation_attempt |-> attempt, generated_query |-> NoQuery,
              execution_error |-> NoError, final_response |-> Response("reset", NoError),
              response_format |-> "summary"]
        ELSE IF st.user_question = "context" /\ message_history = << >>
        THEN GenerationFailed(attempt, Msg("no_history", {}))
        ELSE IF attempt = 1 /\ st.user_question = "ambiguous"
        THEN GenerationFailed(attempt, Msg("ambiguous_help", {}))
        ELSE IF attempt > max_generation_attempts
        THEN [generation_attempt |-> attempt,
              execution_error |-> Msg("generation_exhausted", {})]
        ELSE IF "database_schema" \notin DOMAIN st
        THEN GenerationFailed(attempt, MsgOf("generation_error", "'database_schema'"))
        ELSE IF llm.raises
        THEN GenerationFailed(attempt, MsgOf("generation_error", llm.text))
        ELSE IF llm.sql = NoQuery
        THEN GenerationFailed(attempt, Msg("generation_failed", {}))
        ELSE [generation_attempt |-> attempt, generated_query |-> llm.sql,
              query_id |-> "uuid", execution_error |-> NoError,
              messages |-> message_history \o <<"human", "ai">>]

\* what one run of query_validation_node reports: "KeyError", "no_query",
\* "exception", the blocking layer of the pipeline, "permission" or "valid"
ValidationOutcome(st, fetch, verdict) ==
    IF "generation" \notin DOMAIN st THEN "KeyError"
    ELSE LET generated_query == st.generation.generated_query
             result == ValidatePipeline(generated_query, DbTables, "fast_model", FALSE, verdict)
         IN  IF generated_query = NoQuery THEN "no_query"
             ELSE IF fetch.raises \/ "input" \notin DOMAIN st THEN "exception"
             ELSE IF ~result.is_valid THEN result.blocked_at_layer
             ELSE IF "auth" \notin DOMAIN st THEN "exception"
             ELSE IF /\ st.auth.accessible_tables # {}
                     /\ UnauthorizedTables(generated_query, st.auth.accessible_tables) # {}
             THEN "permission"
             ELSE "valid"

Hint(layer) ==
    CASE layer = "keyword" -> <<Msg("hint_select_only", {})>>
      [] layer = "schema" -> <<Msg("hint_valid_tables", {})>>
      [] layer = "semantic" -> <<Msg("hint_simpler", {})>>
      [] OTHER -> << >>

\* query_validation_node; state["generation"] is read before the try,
\* state["input"] and state["auth"] inside it
query_validation_node(st, fetch, verdict) ==
    IF "generation" \notin DOMAIN st
    THEN Raises("KeyError", "generation")
    ELSE
    LET generated_query == st.generation.generated_query
        generation_attempt == st.generation.generation_attempt
        result == ValidatePipeline(generated_query, DbTables, "fast_model", FALSE, verdict)
        problem == [validation |->
                        update_validation(st, FALSE, <<Msg("validation_problem", {})>>),
                    generation |-> update_generation(st, generation_attempt + 1)]
    IN  IF generated_query = NoQuery
        THEN [validation |-> update_validation(st, FALSE, <<Msg("no_query", {})>>)]
        ELSE IF fetch.raises \/ "input" \notin DOMAIN st
        THEN problem
        ELSE IF result.is_valid
        THEN IF "auth" \notin DOMAIN st
             THEN problem
             ELSE LET accessible_tables == st.auth.accessible_tables
                      unauthorized == UnauthorizedTables(generated_query, accessible_tables)
                  IN  IF accessible_tables # {} /\ unauthorized # {}
                      THEN [validation |->
                                update_validation(st, FALSE,
                                                  <<Msg("permission_denied", unauthorized)>>)]
                      ELSE [validation |-> update_validation(st, TRUE, << >>)]
        ELSE [validation |->
                  update_validation(st, FALSE,
                      <<Msg(result.error_message, {})>>
                      \o (IF generation_attempt < MAX_VALIDATION_RETRIES
                          THEN Hint(result.blocked_at_layer) ELSE << >>)),
              generation |-> update_generation(st, generation_attempt + 1)]

\* the answers interrupt() can return: a bool, a dict with the keys approved
\* and modified_query, or a value of another type
UserResponses ==
    {[type |-> "bool", approved |-> b, modified_query |-> NoQuery] : b \in BOOLEAN}
    \cup {[type |-> "dict", approved |-> b, modified_query |-> q] :
              b \in BOOLEAN, q \in Queries \cup {NoQuery}}
    \cup {[type |-> "other", approved |-> FALSE, modified_query |-> NoQuery]}

\* no resume value is at hand: interrupt() stops the graph
NoResponse == [type |-> "none", approved |-> FALSE, modified_query |-> NoQuery]

\* the answer approves and carries a modified_query
SuppliesModifiedQuery(user_response) ==
    /\ user_response.type = "dict"
    /\ user_response.approved
    /\ user_response.modified_query # NoQuery

\* handle_user_response
handle_user_response(st, user_response) ==
    LET approved == IF user_response.type \in {"bool", "dict"}
                    THEN user_response.approved ELSE FALSE
        modified_query == IF user_response.type = "dict"
                          THEN user_response.modified_query ELSE NoQuery
    IN  IF approved
        THEN IF modified_query # NoQuery
             THEN [user_approved |-> "True", generated_query |-> modified_query,
                   is_query_valid |-> FALSE]
             ELSE [user_approved |-> "True"]
        ELSE [user_approved |-> "False", execution_error |-> Msg("cancelled", {})]

\* user_confirmation_node: it approves by itself under auto_confirm_queries;
\* otherwise it builds the confirmation request from the state and hands it
\* to interrupt(), and handles the value interrupt() returns
user_confirmation_node(st, auto, user_response) ==
    IF auto THEN [user_approved |-> "True"]
    ELSE IF user_response = NoResponse
    THEN Interrupt([query_id |-> Get(st, "query_id", ""),
                    query |-> Get(st, "generated_query", NoQuery)])
    ELSE handle_user_response(st, user_response)


-----------------------------------------------------------------------------
(* Executor *)

\* DANGEROUS_KEYWORDS of executor.py
EXECUTOR_DANGEROUS_KEYWORDS ==
    {"UPDATE", "DELETE", "INSERT", "DROP", "ALTER", "TRUNCATE", "GRANT", "REVOKE",
     "CREATE", "MODIFY", "EXEC", "EXECUTE"}

\* TRUE when token i of the text has a space, or an end of the text, on both sides
SpaceDelimited(query, i) ==
    /\ i = 1 \/ query[i - 1] # "\n"
    /\ i = Len(query) \/ query[i + 1] # "\n"

\* _quick_safety_check: the keywords k with " k " in " " + query.upper() + " ";
\* it raises DangerousQueryError when there is one
quick_safety_check(query) ==
    { Upper(query[i]) : i \in { j \in 1..Len(query) :
          Upper(query[j]) \in EXECUTOR_DANGEROUS_KEYWORDS /\ SpaceDelimited(query, j) } }

\* what conn.fetch does once the statement reached the database
DbKinds == {"rows", "QueryCanceledError", "PostgresError", "Exception"}

\* most rows a fetch returns
MaxFetched == 3

\* largest row limit (max_rows argument, settings.max_result_rows)
MaxLimit == 2

\* str(e) of the QueryCanceledError a statement_timeout raises
CancelText == "canceling statement due to statement timeout"

DbOutcomes ==
    {[kind |-> "rows", n |-> n, text |-> "None"] : n \in 0..MaxFetched}
    \cup {[kind |-> "QueryCanceledError", n |-> 0, text |-> CancelText]}
    \cup {[kind |-> k, n |-> 0, text |-> e] : k \in {"PostgresError", "Exception"},
                                              e \in ExceptionTexts}

\* the rows fetched: row i of n is i
Fetched(n) == [i \in 1..n |-> i]

\* the exception execute_safe_query raises; `detail` is the text of the
\* driver's exception and `wraps` the number of DatabaseConnectionError
\* layers around it: str(e) is "데이터베이스 연결 오류: " once per layer, then
\* the detail
Raised(kind, connected, wraps, detail) ==
    [error |-> kind, connected |-> connected, wraps |-> wraps, detail |-> detail,
     rows |-> << >>, total_row_count |-> 0, returned_row_count |-> 0,
     is_truncated |-> FALSE]

\* variant of the truncation test that also truncates a result of exactly the limit
IsTruncatedAtLimit(total_count, max_row_limit) == total_count >= max_row_limit

\* is_truncated = total_count > max_row_limit
IsTruncated(total_count, max_row_limit) == total_count > max_row_limit

\* execute_safe_query; max_rows = 0 is the argument left out (None);
\* `connected` tells whether get_readonly_connection was entered.  An
\* asyncpg.PostgresError of conn.fetch (QueryCanceledError is one) is thrown
\* into get_readonly_connection at its yield, which raises
\* DatabaseConnectionError(str(e)) in its place; execute_safe_query catches
\* that under `except Exception` and wraps it a second time.  Any other
\* exception of conn.fetch is wrapped there once.
execute_safe_query(query, max_rows, settings_max_rows, db) ==
    LET max_row_limit == IF max_rows = 0 THEN settings_max_rows ELSE max_rows
        query_stripped == Strip(query)
        rows == Fetched(db.n)
        total_count == Len(rows)
        is_truncated == IsTruncated(total_count, max_row_limit)
        result_rows == IF is_truncated THEN SubSeq(rows, 1, max_row_limit) ELSE rows
    IN  IF quick_safety_check(query) # {}
        THEN Raised("Dangerous", FALSE, 0, "None")
        ELSE IF query_stripped = << >> \/ Upper(query_stripped[1]) # "SELECT"
        THEN Raised("Dangerous", FALSE, 0, "None")
        ELSE IF db.kind \in {"QueryCanceledError", "PostgresError"}
        THEN Raised("ConnectionError", TRUE, 2, db.text)
        ELSE IF db.kind = "Exception"
        THEN Raised("ConnectionError", TRUE, 1, db.text)
        ELSE [error |-> "None", connected |-> TRUE, wraps |-> 0, detail |-> "None",
              rows |-> result_rows,
              total_row_count |-> total_count, returned_row_count |-> Len(result_rows),
              is_truncated |-> is_truncated]

\* largest total_row_count the executor reports
MaxRows == 1

\* settings.max_result_rows
max_result_rows == 10000

\* what the database does with the statement of a run
ExecOutcomes == {o \in DbOutcomes : o.n <= MaxRows}

\* TRUE when query_execution_node gets as far as calling execute_safe_query
ReachesExecutor(st) ==
    /\ "generation" \in DOMAIN st
    /\ "auth" \in DOMAIN st
    /\ st.generation.generated_query # NoQuery
    /\ ~(st.auth.accessible_tables # {}
         /\ UnauthorizedTables(st.generation.generated_query, st.auth.accessible_tables) # {})

\* str(e) of the exception execute_safe_query raised
ExceptionMessage(result) ==
    IF result.wraps = 2
    THEN MsgOf("ConnectionError: ConnectionError", result.detail)
    ELSE MsgOf(result.error, result.detail)

\* query_execution_node; state["generation"] is read first, state["auth"]
\* after the test of the query, both before the try.  The dicts it returns
\* under "execution" and "response" are the new sections: the ones of the
\* error returns hold execution_error or response_format alone
query_execution_node(st, exec) ==
    IF "generation" \notin DOMAIN st
    THEN Raises("KeyError", "generation")
    ELSE IF st.generation.generated_query = NoQuery
    THEN [execution |-> [execution_error |-> Msg("no_query", {})],
          response |-> [response_format |-> "error"]]
    ELSE IF "auth" \notin DOMAIN st
    THEN Raises("KeyError", "auth")
    ELSE
    LET query == st.generation.generated_query
        accessible_tables == st.auth.accessible_tables
        unauthorized == UnauthorizedTables(query, accessible_tables)
        result == execute_safe_query(query, 0, max_result_rows, exec)
    IN  IF accessible_tables # {} /\ unauthorized # {}
        THEN [execution |-> [total_row_count |-> 0,
                             execution_error |-> Msg("permission_denied", unauthorized)],
              response |-> [response_format |-> "error"]]
        ELSE IF result.error # "None"
        THEN [execution |-> [total_row_count |-> 0,
                             execution_error |-> ExceptionMessage(result)],
              response |-> [response_format |-> "error"]]
        ELSE [execution |-> [total_row_count |-> result.total_row_count,
                             execution_error |-> NoError],
              response |-> [response_format |->
                                IF result.total_row_count = 0 THEN "summary" ELSE "table"]]

\* the substring tests of _format_error_response on an error message:
\* "타임아웃"/"시간", "연결"/"connection", "테이블"/"찾을 수 없", "이해"/"모호"
Mentions(e, topic) ==
    CASE topic = "timeout" -> e.msg = "Timeout"
      [] topic = "connection" ->
            \/ e.msg \in {"ConnectionError", "ConnectionError: ConnectionError",
                         "schema_unavailable: ConnectionError"}
            \/ e.detail = "connection refused"
      [] topic = "table" -> e.msg = "permission_denied" /\ e.tables # {}
      [] OTHER -> FALSE

\* _format_error_response
format_error_response(error_message, validation_errors) ==
    IF validation_errors # << >>
    THEN Response("cannot_process", validation_errors[1])
    ELSE IF Mentions(error_message, "timeout") THEN Response("timeout", NoError)
    ELSE IF Mentions(error_message, "connection") THEN Response("connection", NoError)
    ELSE IF Mentions(error_message, "table") THEN Response("not_found", error_message)
    ELSE IF Mentions(error_message, "ambiguous") THEN Response("ambiguous_help", NoError)
    ELSE IF Truthy(error_message) THEN Response("cannot_process", error_message)
    ELSE Response("internal_error", NoError)

\* TRUE when response_formatting_node takes the error branch with the key
\* execution_error held at None: "타임아웃" in None raises TypeError and
\* nothing catches it
FormatterRaises(st) ==
    /\ Get(st, "user_approved", "None") # "False"
    /\ Get(st, "response_format", "table") = "error"
    /\ Get(st, "validation_errors", << >>) = << >>
    /\ "execution_error" \in DOMAIN st
    /\ st.execution_error = NoError

\* response_formatting_node; state.get("execution_error", "") is "" when the
\* key is missing and None when the key holds None
response_formatting_node(st) ==
    IF Get(st, "user_approved", "None") = "False"
    THEN [final_response |-> Response("cancelled", NoError), response_format |-> "summary"]
    ELSE IF \/ Get(st, "response_format", "table") = "error"
            \/ Truthy(Get(st, "execution_error", NoError))
    THEN IF FormatterRaises(st)
         THEN Raises("TypeError", "None")
         ELSE [final_response |->
                   format_error_response(Get(st, "execution_error", EmptyMessage),
                                         Get(st, "validation_errors", << >>)),
               response_format |-> "error"]
    ELSE IF Get(st, "total_row_count", 0) = 0
    THEN [final_response |-> Response("empty", NoError), response_format |-> "summary"]
    ELSE [final_response |-> Response("table", NoError), response_format |-> "table"]

-----------------------------------------------------------------------------
(* Routers and edges of build_graph; every router reads the keys it tests *)
(* with state.get on the state itself                                      *)

should_continue_after_schema(st) ==
    IF Truthy(Get(st, "execution_error", NoError)) THEN "format_error" ELSE "generate"

\* variant that sends a failed generation back to generation below the bound
should_continue_after_generation_retrying(st) ==
    IF \/ (IF "execution_error" \in DOMAIN st
           THEN st.execution_error.msg \notin {"None", ""} ELSE FALSE)
       \/ (IF "generated_query" \in DOMAIN st THEN st.generated_query = << >> ELSE TRUE)
    THEN IF (IF "generation_attempt" \in DOMAIN st THEN st.generation_attempt ELSE 0) < 3
         THEN "regenerate" ELSE "format_error"
    ELSE "validate"

should_continue_after_generation(st) ==
    IF Truthy(Get(st, "execution_error", NoError)) \/ Get(st, "generated_query", NoQuery) = NoQuery
    THEN "format_error" ELSE "validate"

should_continue_after_validation(st) ==
    IF Get(st, "is_query_valid", FALSE) THEN "confirm"
    ELSE IF Get(st, "generation_attempt", 0) < MAX_VALIDATION_RETRIES THEN "regenerate"
    ELSE "format_error"

\* variant that executes every approved query
should_continue_after_confirmation_no_revalidate(st) ==
    IF (IF "user_approved" \in DOMAIN st THEN st.user_approved = "True" ELSE FALSE)
    THEN "execute" ELSE "format_cancelled"

\* state.get("is_query_valid") is False: a missing key is not False
should_continue_after_confirmation(st) ==
    IF Get(st, "user_approved", "None") = "True"
    THEN IF "is_query_valid" \in DOMAIN st /\ st.is_query_valid = FALSE
         THEN "revalidate" ELSE "execute"
    ELSE "format_cancelled"

should_continue_after_execution(st) == "format_result"

\* the node each edge label of add_conditional_edges leads to
Target(label) ==
    CASE label \in {"generate", "regenerate"} -> "query_generation"
      [] label \in {"validate", "revalidate"} -> "query_validation"
      [] label = "confirm" -> "user_confirmation"
      [] label = "execute" -> "query_execution"
      [] label \in {"format_error", "format_cancelled", "format_result"} -> "response_formatting"

GraphNodes ==
    {"schema_retrieval", "query_generation", "query_validation", "user_confirmation",
     "query_execution", "response_formatting"}

\* the router build_graph attaches to a node, applied to the state after it
RouteAfter(node, st) ==
    CASE node = "schema_retrieval" -> should_continue_after_schema(st)
      [] node = "query_generation" -> should_continue_after_generation(st)
      [] node = "query_validation" -> should_continue_after_validation(st)
      [] node = "user_confirmation" -> should_continue_after_confirmation(st)
      [] node = "query_execution" -> should_continue_after_execution(st)

\* the node the edges of build_graph lead to after node
NextNode(node, st) ==
    IF node = "response_formatting" THEN "END" ELSE Target(RouteAfter(node, st))

-----------------------------------------------------------------------------
(* The graph as chat_endpoint runs it: what a node is handed, what the     *)
(* graph does with the dict it returns and what the stream yields for it.  *)

\* no direct call is in progress
NoCall == [fn |-> "none"]

\* no module-level object is touched in this behaviour
NoGlobals == [kind |-> "none"]

\* no coroutine is in flight
NoTasks == << >>

\* what the world hands to one node run: the schema fetch, the LLM answer,
\* the validator LLM's verdict, the value interrupt() returns, the database
\* and settings.auto_confirm_queries
NodeEnvs(node, auto, user_response) ==
    LET env == [fetch |-> [raises |-> FALSE, wraps |-> 0, text |-> "None"],
                llm |-> [raises |-> FALSE, sql |-> NoQuery, text |-> "None"],
                verdict |-> "approve", user_response |-> user_response,
                exec |-> [kind |-> "rows", n |-> 1, text |-> "None"], auto |-> auto]
    IN  CASE node = "schema_retrieval" -> {[env EXCEPT !.fetch = f] : f \in FetchOutcomes}
          [] node = "query_generation" -> {[env EXCEPT !.llm = l] : l \in LlmOutcomes}
          [] node = "query_validation" ->
                {[env EXCEPT !.fetch = f, !.verdict = v] :
                     f \in FetchOutcomes, v \in LlmVerdicts}
          [] node = "query_execution" -> {[env EXCEPT !.exec = e] : e \in ExecOutcomes}
          [] OTHER -> {env}

\* the node function build_graph registers under the name `node`
NodeUpdate(node, st, env) ==
    CASE node = "schema_retrieval" -> schema_retrieval_node(st, env.fetch)
      [] node = "query_generation" -> query_generation_node(st, env.llm)
      [] node = "query_validation" -> query_validation_node(st, env.fetch, env.verdict)
      [] node = "user_confirmation" ->
            user_confirmation_node(st, env.auto, env.user_response)
      [] node = "query_execution" -> query_execution_node(st, env.exec)
      [] node = "response_formatting" -> response_formatting_node(st)

\* the graph after a node handed back `update`: the exception leaves
\* graph.astream, the interrupt stops the run in front of the node, or the
\* update is applied and the node's router picks the next node
GraphStep(node, st, update) ==
    IF IsRaise(update) THEN [state |-> st, pc |-> "EXCEPTION"]
    ELSE IF IsInterrupt(update) THEN [state |-> st, pc |-> "INTERRUPTED"]
    ELSE LET merged == Merge(st, update)
         IN  [state |-> merged, pc |-> NextNode(node, merged)]

\* node_output of stream_mode="updates": the channels the node wrote; None
\* (EmptyDict here) when it wrote none
NodeOutput(update) == [k \in DOMAIN update \cap Channels |-> update[k]]

\* the events chat_endpoint yields inside the stream loop for one node_output
NodeEvents(node, node_output) ==
    IF DOMAIN node_output = {} THEN << >>
    ELSE (IF node = "query_generation"
             /\ Get(node_output, "generated_query", NoQuery) # NoQuery
          THEN <<"status_validating", "query_preview">> ELSE << >>)
         \o (IF node = "query_validation" /\ Get(node_output, "is_query_valid", FALSE)
             THEN <<"status_awaiting_confirm">> ELSE << >>)
         \o (IF node = "query_execution" THEN <<"status_executing">> ELSE << >>)

-----------------------------------------------------------------------------
(* Direct calls of the validators and of the executor, one call per        *)
(* behaviour: the statement is a SELECT list, a FROM clause and up to      *)
(* MaxClauses further clauses, or one of Queries.                          *)

SelectLists ==
    { <<"SELECT", "*">>, <<"select", "id">>, <<"SELECT", "bogus">>, <<"SELECT", "token">>,
      <<"SELECT", "name">> }

FromClauses ==
    { <<"FROM", "orders">>,
      <<"FROM", "ghost">>,
      <<"FROM", "orders", ",", "ghost">>,
      <<"FROM", "orders", ",", "drivers">>,
      <<"FROM", "orders", "JOIN", "ghost">>,
      <<"FROM", "orders", "JOIN", "drivers", "ON", "total", "=", "bogus">> }

Clauses ==
    { <<"WHERE", "name", "=", "'", "please", "DELETE", "this", "'">>,
      <<"WHERE", "bogus", "=", "1">>,
      <<"WHERE", "id", "=", "1", "OR", "1", "=", "1">>,
      <<"WHERE", "id", "IN", "(", "SELECT", "id", "FROM", "ghost", ")">>,
      <<"--", "drop", "\n">>,
      <<"/*", "DELETE", "*/">>,
      <<"\n", "DELETE", "FROM", "orders">>,
      <<"MODIFY", "total">>,
      <<";", "delete", "FROM", "orders", ";", "drop">> }

MaxClauses == 2

RECURSIVE ClauseLists(_)
ClauseLists(n) ==
    IF n = 0 THEN {<< >>}
    ELSE ClauseLists(n - 1) \cup {l \o c : l \in ClauseLists(n - 1), c \in Clauses}

\* WITH name AS (SELECT ...) SELECT ... FROM/JOIN name, over tables and
\* columns of the snapshot
CteStatements ==
    { <<"WITH", "recent", "AS", "(", "SELECT", "id", "FROM", "orders", ")",
        "SELECT", "id", "FROM", "recent">>,
      <<"WITH", "recent", "AS", "(", "SELECT", "id", "FROM", "orders", ")",
        "SELECT", "name", "FROM", "drivers", "JOIN", "recent", "ON", "id", "=", "id">> }

\* statements with an alias, a keyword where an identifier is expected, a
\* repeated keyword, or a line break after the keyword
AliasStatements ==
    { <<"SELECT", "*", "FROM", "orders", "JOIN", "drivers", "JOIN", "ghost">>,
      <<"SELECT", "*", "FROM", "orders", "FROM", "ghost">>,
      <<"SELECT", "*", "FROM", "orders", "AS", "recent", "JOIN", "ghost">>,
      <<"SELECT", "id", "bogus", "FROM", "orders">>,
      <<"SELECT", "id", "AS", "bogus", "FROM", "orders">>,
      <<"SELECT", "bogus", ",", "id", "FROM", "orders">>,
      <<"SELECT", "SET", "recent", "FROM">>,
      <<"SELECT", "*", "FROM", "\n", "ghost">>,
      <<"UPDATE", "\n", "orders", "JOIN">>,
      <<"JOIN", "WITH">>,
      <<"JOIN", "JOIN", "total">> }

Statements ==
    Queries \cup {NoQuery, <<"\n">>, <<"WITH", "orders">>} \cup CteStatements
    \cup AliasStatements
    \cup {s \o f \o l : s \in SelectLists, f \in FromClauses, l \in ClauseLists(MaxClauses)}

\* no module-level object is touched and no other coroutine runs
NoProcess == globals = NoGlobals /\ tasks = NoTasks

\* validate_query_keywords(query)
KeywordInit ==
    /\ NoProcess
    /\ call \in {[fn |-> "keyword", query |-> q] : q \in Statements}
    /\ ret = NoCall

KeywordCall ==
    /\ call.fn = "keyword"
    /\ ret = NoCall
    /\ ret' = KeywordValidate(call.query)
    /\ UNCHANGED <<call, globals, tasks>>

KeywordSpec == KeywordInit /\ [][KeywordCall]_vars

\* validate_query_schema(query, schema)
SchemaInit ==
    /\ NoProcess
    /\ call \in {[fn |-> "schema", query |-> q, schema |-> sc] :
                      q \in Statements, sc \in SUBSET DbTables}
    /\ ret = NoCall

SchemaCall ==
    /\ call.fn = "schema"
    /\ ret = NoCall
    /\ ret' = SchemaValidate(call.query, call.schema)
    /\ UNCHANGED <<call, globals, tasks>>

SchemaSpec == SchemaInit /\ [][SchemaCall]_vars

\* validate_query_pipeline(query, schema, llm, skip_semantic)
PipelineInit ==
    /\ NoProcess
    /\ \E q \in Statements, sc \in {DbTables, {"orders"}}, l \in LlmChoices,
          sk \in BOOLEAN, v \in LlmVerdicts :
            call = [fn |-> "pipeline", query |-> q, schema |-> sc, llm |-> l,
                    skip_semantic |-> sk, verdict |-> v]
    /\ ret = NoCall

PipelineCall ==
    /\ call.fn = "pipeline"
    /\ ret = NoCall
    /\ ret' = ValidatePipeline(call.query, call.schema, call.llm, call.skip_semantic,
                               call.verdict)
    /\ UNCHANGED <<call, globals, tasks>>

PipelineSpec == PipelineInit /\ [][PipelineCall]_vars

\* execute_safe_query(query, max_rows=max_rows) under settings.max_result_rows
ExecutorInit ==
    /\ NoProcess
    /\ \E q \in Statements, m \in 0..MaxLimit, d \in 1..MaxLimit, o \in DbOutcomes :
            call = [fn |-> "executor", query |-> q, max_rows |-> m,
                    max_result_rows |-> d, db |-> o]
    /\ ret = NoCall

ExecutorCall ==
    /\ call.fn = "executor"
    /\ ret = NoCall
    /\ ret' = execute_safe_query(call.query, call.max_rows, call.max_result_rows, call.db)
    /\ UNCHANGED <<call, globals, tasks>>

ExecutorSpec == ExecutorInit /\ [][ExecutorCall]_vars

\* role names a principal can hold
RoleNames == {"admin", "viewer"}

\* what a table_permissions row grants: no row, can_read, can_read and can_write
Grants == {"none", "read", "readwrite"}

\* the table_permissions store: one row at most per role and table
PermissionStores == [RoleNames \X AllTables -> Grants]

\* tp.can_read = TRUE / tp.can_write = TRUE
HasPermission(grant, permission_type) ==
    IF permission_type = "read" THEN grant \in {"read", "readwrite"}
    ELSE grant = "readwrite"

\* get_accessible_tables(user, permission_type) over the rows of
\* table_permissions; raises is a failure of the connection or of the query
get_accessible_tables(roles, permission_type, table_permissions, raises) ==
    IF roles = {} THEN {}
    ELSE IF raises THEN {}
    ELSE { t \in AllTables :
             \E r \in roles : HasPermission(table_permissions[<<r, t>>], permission_type) }

\* get_accessible_tables(user, permission_type)
PermissionInit ==
    /\ NoProcess
    /\ call \in {[fn |-> "permissions", roles |-> rs, permission_type |-> m,
                       table_permissions |-> tp, raises |-> x] :
                      rs \in SUBSET RoleNames, m \in {"read", "write"},
                      tp \in PermissionStores, x \in BOOLEAN}
    /\ ret = NoCall

PermissionCall ==
    /\ call.fn = "permissions"
    /\ ret = NoCall
    /\ ret' = [tables |-> get_accessible_tables(call.roles, call.permission_type,
                                                 call.table_permissions, call.raises)]
    /\ UNCHANGED <<call, globals, tasks>>

PermissionSpec == PermissionInit /\ [][PermissionCall]_vars

-----------------------------------------------------------------------------
(* The session store: the functions of session/manager.py on the module-   *)
(* level dict _sessions and on the checkpointer.  A session is its status, *)
(* its message_history and `idle`, which tells whether                     *)
(* settings.session_timeout_minutes have passed since last_activity_at.    *)

\* settings.max_message_history
max_message_history == 10

\* number of messages add_message_to_session takes in between two moments
\* at which the history is empty
MaxAdded == 12

\* session ids uuid4 hands out
SessionIds == {"s1"}

MessageRoles == {"user", "assistant"}

\* variant of the history limit that keeps the oldest messages
KeepOldest(message_history, limit) ==
    IF Len(message_history) > limit
    THEN SubSeq(message_history, 1, limit)
    ELSE message_history

\* message_history[-max_message_history:] when the history is longer than
\* max_message_history; the slice [-0:] is the whole list and [-limit:] of a
\* negative limit starts after the first -limit messages
KeepLatest(message_history, limit) ==
    IF Len(message_history) > limit
    THEN SubSeq(message_history,
                (IF limit > 0 THEN Len(message_history) - limit ELSE -limit) + 1,
                Len(message_history))
    ELSE message_history

\* ConversationSession(status = ACTIVE, message_history = [],
\* last_activity_at = now)
NewSession == [status |-> "ACTIVE", message_history |-> << >>, idle |-> FALSE]

\* _is_session_expired
is_session_expired(session) == session.idle

\* get_session(session_id): the store after the call and the exception it
\* raises ("None": the session is returned); the test of the clock comes
\* first and writes the status EXPIRED
get_session(sessions, session_id) ==
    IF session_id \notin DOMAIN sessions
    THEN [sessions |-> sessions, raises |-> "SessionNotFoundError"]
    ELSE IF is_session_expired(sessions[session_id])
    THEN [sessions |-> [sessions EXCEPT ![session_id].status = "EXPIRED"],
          raises |-> "SessionExpiredError"]
    ELSE IF sessions[session_id].status = "TERMINATED"
    THEN [sessions |-> sessions, raises |-> "SessionNotFoundError"]
    ELSE [sessions |-> sessions, raises |-> "None"]

\* update_session_activity(session_id)
update_session_activity(sessions, session_id) ==
    LET got == get_session(sessions, session_id)
    IN  IF got.raises # "None" THEN got
        ELSE [got EXCEPT !.sessions[session_id].idle = FALSE]

\* add_message_to_session(session_id, role, content)
add_message_to_session(sessions, session_id, message) ==
    LET got == get_session(sessions, session_id)
    IN  IF got.raises # "None" THEN got
        ELSE [got EXCEPT
                 !.sessions[session_id].message_history =
                     KeepLatest(Append(@, message), max_message_history),
                 !.sessions[session_id].idle = FALSE]

\* reset_session(session_id)
reset_session(sessions, session_id) ==
    LET got == get_session(sessions, session_id)
    IN  IF got.raises # "None" THEN got
        ELSE [got EXCEPT !.sessions[session_id].message_history = << >>,
                         !.sessions[session_id].idle = FALSE]

\* _checkpointer.delete_thread(thread_id)
delete_thread(checkpoints, thread_id) ==
    [t \in DOMAIN checkpoints \ {thread_id} |-> checkpoints[t]]

\* terminate_session(session_id) on _sessions
terminate_session(sessions, session_id) ==
    IF session_id \in DOMAIN sessions
    THEN [sessions EXCEPT ![session_id].status = "TERMINATED"]
    ELSE sessions

\* expired_ids of cleanup_expired_sessions
expired_ids(sessions) ==
    {sid \in DOMAIN sessions :
        is_session_expired(sessions[sid]) \/ sessions[sid].status # "ACTIVE"}

\* cleanup_expired_sessions() on _sessions
cleanup_expired_sessions(sessions) ==
    [sid \in DOMAIN sessions \ expired_ids(sessions) |-> sessions[sid]]

\* call.added: the messages add_message_to_session took since the history
\* of the session was last empty; globals.issued: the ids uuid4 handed out
SessionInit ==
    /\ tasks = NoTasks
    /\ globals = [kind |-> "sessions", _sessions |-> [s \in {} |-> NewSession],
                  issued |-> {}]
    /\ call = [fn |-> "add_message_to_session", added |-> << >>]
    /\ ret = NoCall

\* create_session
CreateSession ==
    /\ globals.kind = "sessions"
    /\ \E session_id \in SessionIds \ globals.issued :
          globals' = [globals EXCEPT
                         !._sessions = (session_id :> NewSession) @@ globals._sessions,
                         !.issued = @ \cup {session_id}]
    /\ ret' = [fn |-> "create_session", raises |-> "None"]
    /\ UNCHANGED <<call, tasks>>

\* the clock: settings.session_timeout_minutes pass without activity
SessionIdles ==
    /\ globals.kind = "sessions"
    /\ \E session_id \in DOMAIN globals._sessions :
          /\ ~globals._sessions[session_id].idle
          /\ globals' = [globals EXCEPT !._sessions[session_id].idle = TRUE]
    /\ UNCHANGED <<call, ret, tasks>>

\* get_session(session_id)
GetSession ==
    /\ globals.kind = "sessions"
    /\ \E session_id \in SessionIds :
       \E got \in {get_session(globals._sessions, session_id)} :
          /\ globals' = [globals EXCEPT !._sessions = got.sessions]
          /\ ret' = [fn |-> "get_session", raises |-> got.raises]
    /\ UNCHANGED <<call, tasks>>

\* update_session_activity(session_id)
UpdateSessionActivity ==
    /\ globals.kind = "sessions"
    /\ \E session_id \in SessionIds :
       \E got \in {update_session_activity(globals._sessions, session_id)} :
          /\ globals' = [globals EXCEPT !._sessions = got.sessions]
          /\ ret' = [fn |-> "update_session_activity", raises |-> got.raises]
    /\ UNCHANGED <<call, tasks>>

\* add_message_to_session(session_id, role, content)
AddMessage ==
    /\ globals.kind = "sessions"
    /\ Len(call.added) < MaxAdded
    /\ \E session_id \in SessionIds, role \in MessageRoles :
       \E got \in {add_message_to_session(globals._sessions, session_id, role)} :
          /\ globals' = [globals EXCEPT !._sessions = got.sessions]
          /\ call' = IF got.raises = "None"
                     THEN [call EXCEPT !.added = Append(@, role)] ELSE call
          /\ ret' = [fn |-> "add_message_to_session", raises |-> got.raises]
    /\ UNCHANGED <<tasks>>

\* reset_session(session_id)
ResetSession ==
    /\ globals.kind = "sessions"
    /\ \E session_id \in SessionIds :
       \E got \in {reset_session(globals._sessions, session_id)} :
          /\ globals' = [globals EXCEPT !._sessions = got.sessions]
          /\ call' = IF got.raises = "None" THEN [call EXCEPT !.added = << >>] ELSE call
          /\ ret' = [fn |-> "reset_session", raises |-> got.raises]
    /\ UNCHANGED <<tasks>>

\* terminate_session(session_id); the checkpointer holds no thread here
TerminateSession ==
    /\ globals.kind = "sessions"
    /\ \E session_id \in SessionIds :
          globals' = [globals EXCEPT
                         !._sessions = terminate_session(@, session_id)]
    /\ ret' = [fn |-> "terminate_session", raises |-> "None"]
    /\ UNCHANGED <<call, tasks>>

\* cleanup_expired_sessions(); the checkpointer holds no thread here
CleanupExpiredSessions ==
    /\ globals.kind = "sessions"
    /\ globals' = [globals EXCEPT !._sessions = cleanup_expired_sessions(@)]
    /\ ret' = [fn |-> "cleanup_expired_sessions",
               removed |-> Cardinality(expired_ids(globals._sessions))]
    /\ UNCHANGED <<call, tasks>>

SessionNext ==
    \/ CreateSession
    \/ SessionIdles
    \/ GetSession
    \/ UpdateSessionActivity
    \/ AddMessage
    \/ ResetSession
    \/ TerminateSession
    \/ CleanupExpiredSessions

SessionSpec == SessionInit /\ [][SessionNext]_vars

-----------------------------------------------------------------------------
(* The executor on its connection: execute_safe_query sends its statements *)
(* one by one through get_readonly_connection to one database session.     *)
(* Nothing in the source opens a transaction block (no BEGIN, no            *)
(* conn.transaction()), so the session runs every statement in a            *)
(* transaction of its own that ends with the statement.                     *)

\* settings.query_timeout_ms
query_timeout_ms == 30000

\* the session a pooled connection gives: no statement sent yet; the
\* server's default_transaction_read_only is a setting of the deployment
NewDbSession(default_read_only) ==
    [default_transaction_read_only |-> default_read_only,
     statement_timeout |-> 0,
     transactions |-> 0,
     executed |-> << >>,
     written |-> FALSE]

\* conn.execute(statement) / conn.fetch(statement) outside a transaction
\* block: the statement runs in a new transaction that starts with the
\* session's default mode; SET TRANSACTION READ ONLY changes the mode of
\* that transaction only; a writing statement takes effect unless its
\* transaction is read-only
SessionExecute(session, statement, writes) ==
    LET read_only == \/ session.default_transaction_read_only
                     \/ statement = "SET TRANSACTION READ ONLY"
    IN  [session EXCEPT
            !.transactions = @ + 1,
            !.statement_timeout =
                IF statement = "SET statement_timeout" THEN query_timeout_ms ELSE @,
            !.executed = Append(@, [statement |-> statement,
                                    transaction |-> session.transactions + 1,
                                    read_only |-> read_only,
                                    statement_timeout |-> session.statement_timeout]),
            !.written = @ \/ (writes /\ ~read_only)]

\* statements execute_safe_query is called with in this specification
ConnectionStatements == Queries \cup CteStatements

\* execute_safe_query(query) is called; writes tells whether the statement
\* is one that modifies data when the database runs it
ConnectionInit ==
    /\ call \in {[fn |-> "execute_safe_query", query |-> q, writes |-> w, db |-> o] :
                      q \in ConnectionStatements, w \in BOOLEAN, o \in DbOutcomes}
    /\ ret = NoCall
    /\ \E d \in BOOLEAN : globals = [kind |-> "database", session |-> NewDbSession(d)]
    /\ tasks = <<[pc |-> "safety_check"]>>

\* _quick_safety_check and the startswith("SELECT") test
SafetyCheck ==
    /\ globals.kind = "database"
    /\ tasks[1].pc = "safety_check"
    /\ LET raised == execute_safe_query(call.query, 0, max_result_rows, call.db)
       IN  IF raised.error # "None" /\ ~raised.connected
           THEN tasks' = <<[pc |-> "returned"]>> /\ ret' = raised
           ELSE tasks' = <<[pc |-> "set_read_only"]>> /\ ret' = ret
    /\ UNCHANGED <<call, globals>>

\* get_readonly_connection: await conn.execute("SET TRANSACTION READ ONLY")
SetTransactionReadOnly ==
    /\ globals.kind = "database"
    /\ tasks[1].pc = "set_read_only"
    /\ globals' = [globals EXCEPT !.session =
                      SessionExecute(@, "SET TRANSACTION READ ONLY", FALSE)]
    /\ tasks' = <<[pc |-> "set_timeout"]>>
    /\ UNCHANGED <<call, ret>>

\* get_readonly_connection: await conn.execute(f"SET statement_timeout = {timeout}")
SetStatementTimeout ==
    /\ globals.kind = "database"
    /\ tasks[1].pc = "set_timeout"
    /\ globals' = [globals EXCEPT !.session =
                      SessionExecute(@, "SET statement_timeout", FALSE)]
    /\ tasks' = <<[pc |-> "fetch"]>>
    /\ UNCHANGED <<call, ret>>

\* await conn.fetch(query): the statement is sent to the session; the
\* coroutine goes on, with the rows or with the exception of the fetch, to
\* the end of the two `async with` blocks, where it waits for the release of
\* the pooled connection
FetchQuery ==
    /\ globals.kind = "database"
    /\ tasks[1].pc = "fetch"
    /\ globals' = [globals EXCEPT !.session = SessionExecute(@, "query", call.writes)]
    /\ tasks' = <<[pc |-> "release"]>>
    /\ UNCHANGED <<call, ret>>

\* the connection is back in the pool: execute_safe_query returns the
\* QueryResult it built or raises what its except clauses make of the
\* exception
ReleaseConnection ==
    /\ globals.kind = "database"
    /\ tasks[1].pc = "release"
    /\ ret' = execute_safe_query(call.query, 0, max_result_rows, call.db)
    /\ tasks' = <<[pc |-> "returned"]>>
    /\ UNCHANGED <<call, globals>>

ConnectionNext ==
    \/ SafetyCheck
    \/ SetTransactionReadOnly
    \/ SetStatementTimeout
    \/ FetchQuery
    \/ ReleaseConnection

ConnectionSpec == ConnectionInit /\ [][ConnectionNext]_vars

-----------------------------------------------------------------------------
(* The schema cache: coroutines calling get_database_schema and            *)
(* clear_schema_cache on the module-level _schema_cache and                *)
(* _cache_updated_at. A coroutine gives up the event loop at an await and  *)
(* nowhere else. Objects are entries of a heap; 0 is None.                 *)

\* coroutines on the event loop
NumCoroutines == 2

\* calls one coroutine makes
MaxSchemaCalls == 2

\* the queries get_database_schema awaits, in order
SchemaQueries ==
    <<"columns", "table_comments", "column_comments", "primary_keys", "foreign_keys",
      "row_counts">>

\* DatabaseSchema(version, last_updated_at, tables) built from the rows of
\* the first n queries; built stands for last_updated_at
Snapshot(n, built) ==
    [tables |-> DbTables, parts |-> {SchemaQueries[i] : i \in 1..n}, built |-> built]

\* variant of the cache update that rewrites the cached object
StoreSnapshotInPlace(g, snapshot) ==
    IF g._schema_cache # 0
    THEN [g EXCEPT !.heap[g._schema_cache] = snapshot,
                   !._cache_updated_at = snapshot.built]
    ELSE [g EXCEPT !.heap = Append(g.heap, snapshot),
                   !._schema_cache = Len(g.heap) + 1,
                   !._cache_updated_at = snapshot.built]

\* _schema_cache = DatabaseSchema(...); _cache_updated_at = utcnow(): a new
\* object, then the two assignments with no await between them
StoreSnapshot(g, snapshot) ==
    [g EXCEPT !.heap = Append(g.heap, snapshot),
              !._schema_cache = Len(g.heap) + 1,
              !._cache_updated_at = snapshot.built]

\* stale: clear_schema_cache ran while the coroutine's fetch was in flight
IdleCoroutine == [pc |-> "idle", fetched |-> 0, calls |-> 0, schema |-> 0, stale |-> FALSE]

CacheInit ==
    /\ call = NoCall
    /\ ret = NoCall
    /\ globals = [kind |-> "schema_cache", _schema_cache |-> 0, _cache_updated_at |-> 0,
                  heap |-> << >>, cached_stale |-> FALSE]
    /\ tasks = [t \in 1..NumCoroutines |-> IdleCoroutine]

\* get_database_schema(force_refresh) up to its first await: the cached
\* object is returned when it is set and younger than SCHEMA_CACHE_TTL
\* (fresh: what the clock says)
GetDatabaseSchema(t) ==
    /\ tasks[t].pc = "idle"
    /\ tasks[t].calls < MaxSchemaCalls
    /\ \E force_refresh \in BOOLEAN, fresh \in BOOLEAN :
          IF /\ ~force_refresh
             /\ globals._schema_cache # 0
             /\ globals._cache_updated_at # 0
             /\ fresh
          THEN tasks' = [tasks EXCEPT ![t].schema = globals._schema_cache,
                                      ![t].calls = @ + 1]
          ELSE tasks' = [tasks EXCEPT ![t].pc = "fetch", ![t].fetched = 0,
                                      ![t].calls = @ + 1,
                                      ![t].stale = FALSE]
    /\ UNCHANGED <<globals, call, ret>>

\* await conn.fetch(...) of the next query: rows, or an exception that
\* leaves get_database_schema
FetchSchemaRows(t) ==
    /\ tasks[t].pc = "fetch"
    /\ tasks[t].fetched < Len(SchemaQueries)
    /\ \E raises \in BOOLEAN :
          IF raises
          THEN tasks' = [tasks EXCEPT ![t].pc = "idle", ![t].fetched = 0,
                                      ![t].stale = FALSE]
          ELSE tasks' = [tasks EXCEPT ![t].fetched = @ + 1]
    /\ UNCHANGED <<globals, call, ret>>

\* after the connection is released: the tables are built from the rows,
\* the cache is replaced and the new object returned
StoreSchema(t) ==
    /\ tasks[t].pc = "fetch"
    /\ tasks[t].fetched = Len(SchemaQueries)
    /\ globals' = [StoreSnapshot(globals, Snapshot(tasks[t].fetched, Len(globals.heap) + 1))
                       EXCEPT !.cached_stale = tasks[t].stale]
    /\ tasks' = [tasks EXCEPT ![t].pc = "idle", ![t].fetched = 0,
                               ![t].schema = globals'._schema_cache,
                               ![t].stale = FALSE]
    /\ UNCHANGED <<call, ret>>

\* clear_schema_cache
ClearSchemaCache(t) ==
    /\ tasks[t].pc = "idle"
    /\ tasks[t].calls < MaxSchemaCalls
    /\ globals' = [globals EXCEPT !._schema_cache = 0, !._cache_updated_at = 0,
                                  !.cached_stale = FALSE]
    /\ tasks' = [u \in 1..NumCoroutines |->
                    IF u = t THEN [tasks[u] EXCEPT !.calls = @ + 1]
                    ELSE IF tasks[u].pc = "fetch" THEN [tasks[u] EXCEPT !.stale = TRUE]
                    ELSE tasks[u]]
    /\ UNCHANGED <<call, ret>>

CacheNext ==
    \/ \E t \in 1..NumCoroutines : GetDatabaseSchema(t)
    \/ \E t \in 1..NumCoroutines : FetchSchemaRows(t)
    \/ \E t \in 1..NumCoroutines : StoreSchema(t)
    \/ \E t \in 1..NumCoroutines : ClearSchemaCache(t)

CacheSpec == CacheInit /\ [][CacheNext]_vars

-----------------------------------------------------------------------------
(* Requests on one event loop: chat_endpoint serves a chat request as the  *)
(* generator event_generator and runs the graph on the thread of the       *)
(* request's session, confirm_query is called for a session, and sessions  *)
(* are terminated, cleaned up or run out of time in between; a session is  *)
(* created by the chat request that finds none.  A generator gives up the  *)
(* event loop at every yield and while a node it called is running; each   *)
(* action of a request takes its generator from one of these points to the *)
(* next.  `pc` names the point: "start", the event last yielded            *)
(* ("sent_session", "sent_status", "sent_validating", "sent_result",       *)
(* "sent_error", "sent_done", "sent_awaiting"), the node about to run or   *)
(* running, "END" when the last node returned, "INTERRUPTED" at the yield  *)
(* of ConfirmationRequiredEvent, "EXCEPTION" at the yield of ErrorEvent    *)
(* for an exception that left graph.astream, "except" at that yield for an *)
(* exception of the endpoint's own statements, and "DONE", "AWAITING" or   *)
(* "FAILED" when the generator has nothing left to run.  A run keeps its   *)
(* channels to itself and writes a checkpoint of them to the thread after  *)
(* the input and after every node.                                         *)

\* chat requests in one behaviour
NumRequests == 2

\* confirm calls in one behaviour
MaxConfirms == 1

\* calls of terminate_session and cleanup_expired_sessions and time-outs of
\* a session in one behaviour
MaxSessionEvents == 2

\* session ids uuid4 hands out, in the order it hands them out; 0 is None
ChatSessionIds == 1..NumRequests

\* query ids a confirm call can carry; "" is the query_id of create_initial_generation
ConfirmQueryIds == {"", "uuid", "other"}

\* chat request r of a behaviour with several: the question, the principal's
\* tables and the world its nodes meet, which is fixed by the request
ChatRequest(r) ==
    IF r = 1
    THEN [user_question |-> "normal", accessible_tables |-> {"orders"},
          world |-> [fixed |-> TRUE,
                     fetch |-> [raises |-> FALSE, wraps |-> 0, text |-> "None"]]]
    ELSE [user_question |-> "reset", accessible_tables |-> DbTables,
          world |-> [fixed |-> TRUE,
                     fetch |-> [raises |-> TRUE, wraps |-> 1, text |-> "connection refused"]]]

\* what a fixed world hands to the nodes of a request
ChatEnv(world, auto, user_response) ==
    [fetch |-> world.fetch,
     llm |-> [raises |-> FALSE, sql |-> <<"SELECT", "*", "FROM", "orders">>, text |-> "None"],
     verdict |-> "approve", user_response |-> user_response,
     exec |-> [kind |-> "rows", n |-> 1, text |-> "None"], auto |-> auto]

\* what the node a run is at can be handed
RunEnvs(run, auto) ==
    IF run.request.world.fixed
    THEN {ChatEnv(run.request.world, auto, NoResponse)}
    ELSE NodeEnvs(run.pc, auto, NoResponse)

\* get_or_create_session(session_id): the store after the call and the id
\* of the session returned; new_id is the id uuid4 hands to create_session
get_or_create_session(sessions, session_id, new_id) ==
    LET got == IF session_id # 0 THEN get_session(sessions, session_id)
               ELSE [sessions |-> sessions, raises |-> "SessionNotFoundError"]
    IN  IF got.raises = "None"
        THEN [sessions |-> got.sessions, session_id |-> session_id]
        ELSE [sessions |-> (new_id :> NewSession) @@ got.sessions, session_id |-> new_id]

\* a thread the checkpointer holds nothing for
NoCheckpoint == [values |-> EmptyDict, next |-> "none"]

\* variant of the start of a run that goes on from the values of the thread
StartChannelsKeepingThread(checkpoint, input) ==
    IF DOMAIN checkpoint.values = {} THEN input ELSE checkpoint.values

\* graph.astream(initial_state, config): the input is written over the
\* channels of the thread's checkpoint and the run starts at START.  The
\* input holds every channel and an empty message list, so messages alone
\* keeps what the thread held
StartChannels(checkpoint, input) ==
    [k \in DOMAIN checkpoint.values \cup DOMAIN input |->
        IF k = "messages"
        THEN Get(checkpoint.values, "messages", << >>) \o input.messages
        ELSE IF k \in DOMAIN input THEN input[k] ELSE checkpoint.values[k]]

\* the checkpoint the graph writes to the thread configurable.thread_id
put(checkpoints, thread_id, values, next) ==
    [t \in DOMAIN checkpoints \cup {thread_id} |->
        IF t = thread_id THEN [values |-> values, next |-> next] ELSE checkpoints[t]]

\* the checkpoint of a thread
get_tuple(checkpoints, thread_id) ==
    IF thread_id \in DOMAIN checkpoints THEN checkpoints[thread_id] ELSE NoCheckpoint

\* a request in flight: `thread` is the session it runs on, `running` tells
\* whether the node pc names was called and has not returned, `state` is
\* the Text2SQLAgentState the graph holds for the run, `final_state` the
\* latest node_output of the stream, `events` the events yielded so far,
\* `llm_calls` the number of llm.ainvoke calls of query_generation_node,
\* `streamed` whether graph.astream was called; of a confirm call,
\* `pending` is the query_id of the confirmation that was pending on the
\* thread when the call came in and `raised` the exception that ended it
ChatRun(request, session_id) ==
    [kind |-> "chat", request |-> request, session_id |-> session_id, thread |-> 0,
     pc |-> "start", running |-> FALSE, state |-> EmptyDict, final_state |-> EmptyDict,
     events |-> << >>, llm_calls |-> 0, query_id |-> "", pending |-> "none",
     approved |-> FALSE, raised |-> "None", streamed |-> FALSE]

\* the module-level objects before the first request: _sessions and the
\* checkpointer are empty; `issued` is the number of ids uuid4 handed out,
\* `session_events` the number of terminations, clean-ups and time-outs so
\* far, auto_confirm is settings.auto_confirm_queries
ChatGlobals(auto) ==
    [kind |-> "chat", _sessions |-> [t \in {} |-> NewSession],
     checkpoints |-> [t \in {} |-> NoCheckpoint],
     issued |-> 0, session_events |-> 0, auto_confirm |-> auto]

\* the chat requests of a behaviour
ChatRuns == {i \in 1..Len(tasks) : tasks[i].kind = "chat"}

\* a generator with nothing left to run
Ended == {"DONE", "AWAITING", "FAILED"}

\* the generator yields the event e with the module-level objects at g and
\* is at the point `at` from then on
Yields(run, g, e, at) ==
    [run |-> [run EXCEPT !.pc = at, !.events = Append(@, e)], globals |-> g]

\* event_generator from its start to the yield of SessionEvent
\* (get_or_create_session before it), and from there to the yield of
\* StatusEvent(GENERATING)
StartStep(run, g) ==
    IF run.pc = "start"
    THEN LET got == get_or_create_session(g._sessions, run.session_id, g.issued + 1)
         IN  [run |-> [run EXCEPT !.pc = "sent_session", !.thread = got.session_id,
                                  !.events = <<"session">>],
              globals |-> [g EXCEPT !._sessions = got.sessions,
                                    !.issued = IF got.session_id = g.issued + 1
                                               THEN @ + 1 ELSE @]]
    ELSE Yields(run, g, "status_generating", "sent_status")

\* event_generator from the yield of StatusEvent(GENERATING) on:
\* add_message_to_session, whose exception is caught by the generator's
\* `except Exception`, which yields ErrorEvent(INTERNAL_ERROR); then
\* create_initial_state and graph.astream(initial_state, config)
StreamStep(run, g) ==
    LET said == add_message_to_session(g._sessions, run.thread, "user")
        st == StartChannels(get_tuple(g.checkpoints, run.thread),
                            create_initial_state(run.request.user_question,
                                                 run.request.accessible_tables))
    IN  IF said.raises # "None"
        THEN Yields(run, [g EXCEPT !._sessions = said.sessions],
                    "error_INTERNAL_ERROR", "except")
        ELSE [run |-> [run EXCEPT !.pc = "schema_retrieval", !.state = st,
                                  !.streamed = TRUE],
              globals |-> [g EXCEPT !._sessions = said.sessions,
                                    !.checkpoints = put(@, run.thread, st, "schema_retrieval")]]

\* the node run.pc names has returned; llm.ainvoke was called when the node
\* is query_generation_node and got as far
NodeReturned(run) ==
    [run EXCEPT !.running = FALSE,
                !.llm_calls = IF run.pc = "query_generation" /\ ReachesLlm(run.state)
                              THEN @ + 1 ELSE @]

\* the dict the node run.pc names returns in the world env
RunUpdate(run, env) ==
    IF run.pc \in GraphNodes THEN NodeUpdate(run.pc, run.state, env) ELSE EmptyDict

\* what the graph does with that dict
RunAfter(run, update) ==
    IF run.pc \in GraphNodes THEN GraphStep(run.pc, run.state, update)
    ELSE [state |-> run.state, pc |-> run.pc]

\* the stream loop from the return of the node run.pc names to the next
\* yield or the next node: the graph applies the node's dict, picks the next
\* node and writes the checkpoint, and the generator keeps the node_output
\* and yields the first event it has for it; an exception of the node leaves
\* graph.astream and is caught by `except Exception`, which yields
\* ErrorEvent(INTERNAL_ERROR); an interrupt makes the generator yield
\* ConfirmationRequiredEvent.  From the yield of StatusEvent(VALIDATING) the
\* generator goes on to the yield of QueryPreviewEvent
StreamLoopStep(run, update, after, g) ==
    IF run.pc = "sent_validating"
    THEN Yields(run, g, "query_preview", NextNode("query_generation", run.state))
    ELSE IF after.pc = "EXCEPTION"
    THEN Yields(NodeReturned(run), g, "error_INTERNAL_ERROR", "EXCEPTION")
    ELSE IF after.pc = "INTERRUPTED"
    THEN Yields(NodeReturned(run), g, "confirmation_required", "INTERRUPTED")
    ELSE [run |-> [NodeReturned(run) EXCEPT
                      !.state = after.state,
                      !.pc = IF Len(NodeEvents(run.pc, NodeOutput(update))) > 1
                             THEN "sent_validating" ELSE after.pc,
                      !.events = IF NodeEvents(run.pc, NodeOutput(update)) = << >> THEN @
                                 ELSE Append(@, NodeEvents(run.pc, NodeOutput(update))[1]),
                      !.final_state = IF DOMAIN NodeOutput(update) = {} THEN @
                                      ELSE NodeOutput(update)],
          globals |-> [g EXCEPT !.checkpoints = put(@, run.thread, after.state, after.pc)]]

\* event_generator after the stream loop, from one yield to the next or to
\* its end.  Interrupted: DoneEvent(awaiting_confirmation), then
\* update_session_activity.  Otherwise ErrorEvent(EXECUTION_ERROR) for a
\* final_state with an execution_error, or ResultEvent and then
\* add_message_to_session; DoneEvent; update_session_activity.  An exception
\* of add_message_to_session or update_session_activity is caught by
\* `except Exception`, which yields ErrorEvent(INTERNAL_ERROR) and then
\* DoneEvent
CloseStep(run, g) ==
    LET said == add_message_to_session(g._sessions, run.thread, "assistant")
        active == update_session_activity(g._sessions, run.thread)
    IN  CASE run.pc = "INTERRUPTED" -> Yields(run, g, "done_awaiting_confirmation", "sent_awaiting")
          [] run.pc = "END" ->
                IF DOMAIN run.final_state = {} THEN Yields(run, g, "done", "sent_done")
                ELSE IF Truthy(Get(run.final_state, "execution_error", NoError))
                THEN Yields(run, g, "error_EXECUTION_ERROR", "sent_error")
                ELSE Yields(run, g, "result", "sent_result")
          [] run.pc = "sent_result" ->
                IF said.raises # "None"
                THEN Yields(run, [g EXCEPT !._sessions = said.sessions],
                            "error_INTERNAL_ERROR", "except")
                ELSE Yields(run, [g EXCEPT !._sessions = said.sessions], "done", "sent_done")
          [] run.pc = "sent_error" -> Yields(run, g, "done", "sent_done")
          [] run.pc \in {"sent_done", "sent_awaiting"} ->
                IF active.raises # "None"
                THEN Yields(run, [g EXCEPT !._sessions = active.sessions],
                            "error_INTERNAL_ERROR", "except")
                ELSE [run |-> [run EXCEPT !.pc = IF run.pc = "sent_done"
                                                 THEN "DONE" ELSE "AWAITING"],
                      globals |-> [g EXCEPT !._sessions = active.sessions]]
          [] run.pc \in {"EXCEPTION", "except"} -> Yields(run, g, "done", "FAILED")

\* the points of event_generator after the stream loop and in its `except`
ClosingPoints ==
    {"END", "INTERRUPTED", "EXCEPTION", "except", "sent_result", "sent_error", "sent_done",
     "sent_awaiting"}

\* NumRequests chat requests, each naming no session or one of ChatSessionIds
ChatInit ==
    /\ call = NoCall
    /\ ret = NoCall
    /\ \E auto \in BOOLEAN : globals = ChatGlobals(auto)
    /\ \E sessions \in [1..NumRequests -> {0} \cup ChatSessionIds] :
          tasks = [r \in 1..NumRequests |-> ChatRun(ChatRequest(r), sessions[r])]

\* one chat request: any question, any principal, naming no session or one
\* of ChatSessionIds; each node it runs meets any world
Init ==
    /\ call = NoCall
    /\ ret = NoCall
    /\ \E auto \in BOOLEAN : globals = ChatGlobals(auto)
    /\ \E q \in QuestionKinds, a \in AccessibleChoices, session_id \in {0} \cup ChatSessionIds :
          tasks = <<ChatRun([user_question |-> q, accessible_tables |-> a,
                             world |-> [fixed |-> FALSE]], session_id)>>

ChatUnchanged == UNCHANGED <<call, ret>>

\* a request's generator is resumed at its start or at the yield of SessionEvent
ChatStart ==
    /\ \E r \in ChatRuns :
       \E next \in {StartStep(tasks[r], globals)} :
          /\ tasks[r].pc \in {"start", "sent_session"}
          /\ tasks' = [tasks EXCEPT ![r] = next.run]
          /\ globals' = next.globals
    /\ ChatUnchanged

\* a request's generator is resumed at the yield of StatusEvent(GENERATING)
ChatStream ==
    /\ \E r \in ChatRuns :
       \E next \in {StreamStep(tasks[r], globals)} :
          /\ tasks[r].pc = "sent_status"
          /\ tasks' = [tasks EXCEPT ![r] = next.run]
          /\ globals' = next.globals
    /\ ChatUnchanged

\* the graph calls the node of a run; the node, or the task the graph runs
\* it in, awaits before anything of it is seen
ChatNodeCall ==
    /\ \E r \in ChatRuns :
          /\ tasks[r].pc \in GraphNodes
          /\ ~tasks[r].running
          /\ tasks' = [tasks EXCEPT ![r].running = TRUE]
    /\ UNCHANGED globals
    /\ ChatUnchanged

\* the node of a run returns, or the request's generator is resumed at the
\* yield of StatusEvent(VALIDATING)
ChatStep ==
    /\ \E r \in ChatRuns :
          /\ \/ tasks[r].pc \in GraphNodes /\ tasks[r].running
             \/ tasks[r].pc = "sent_validating"
          /\ \E env \in RunEnvs(tasks[r], globals.auto_confirm) :
             \E update \in {RunUpdate(tasks[r], env)} :
             \E after \in {RunAfter(tasks[r], update)} :
             \E next \in {StreamLoopStep(tasks[r], update, after, globals)} :
                /\ tasks' = [tasks EXCEPT ![r] = next.run]
                /\ globals' = next.globals
    /\ ChatUnchanged

\* a request's generator is resumed after the stream loop or in its `except`
ChatReturn ==
    /\ \E r \in ChatRuns :
          /\ tasks[r].pc \in ClosingPoints
          /\ \E next \in {CloseStep(tasks[r], globals)} :
                /\ tasks' = [tasks EXCEPT ![r] = next.run]
                /\ globals' = next.globals
    /\ ChatUnchanged

\* the query_id of the confirmation pending on a thread, "none" when the
\* thread is not stopped in front of user_confirmation
PendingQueryId(checkpoint) ==
    IF checkpoint.next = "user_confirmation"
    THEN checkpoint.values.generation.query_id ELSE "none"

\* confirm_query(session_id, query_id, approved): request.query_id is
\* logged, get_session raises for a session it does not return, and the
\* expression that builds user_response reads request.modified_query, an
\* attribute ConfirmationRequest does not have.  Every exception ends in
\* HTTPException(500) before graph.astream is called
ConfirmQuery ==
    /\ Cardinality({i \in 1..Len(tasks) : tasks[i].kind = "confirm"}) < MaxConfirms
    /\ \E session_id \in ChatSessionIds, query_id \in ConfirmQueryIds, approved \in BOOLEAN :
       \E got \in {get_session(globals._sessions, session_id)} :
          /\ tasks' = Append(tasks,
                [ChatRun([user_question |-> "none", accessible_tables |-> {},
                          world |-> [fixed |-> FALSE]], session_id) EXCEPT
                    !.kind = "confirm", !.thread = session_id, !.pc = "returned",
                    !.events = <<"http_500">>, !.query_id = query_id,
                    !.pending = PendingQueryId(get_tuple(globals.checkpoints, session_id)),
                    !.approved = approved,
                    !.raised = IF got.raises # "None" THEN got.raises
                               ELSE "AttributeError"])
          /\ globals' = [globals EXCEPT !._sessions = got.sessions]
    /\ ChatUnchanged

\* DELETE /sessions/{session_id}: terminate_session, which also deletes the
\* thread of the session
ChatTerminateSession ==
    /\ globals.session_events < MaxSessionEvents
    /\ \E session_id \in ChatSessionIds :
          globals' = [globals EXCEPT
              !._sessions = terminate_session(@, session_id),
              !.checkpoints = IF session_id \in DOMAIN globals._sessions
                              THEN delete_thread(@, session_id) ELSE @,
              !.session_events = @ + 1]
    /\ UNCHANGED tasks
    /\ ChatUnchanged

\* cleanup_expired_sessions(): the sessions and their threads are deleted
ChatCleanupExpiredSessions ==
    /\ globals.session_events < MaxSessionEvents
    /\ globals' = [globals EXCEPT
           !._sessions = cleanup_expired_sessions(@),
           !.checkpoints = [t \in DOMAIN @ \ expired_ids(globals._sessions) |-> @[t]],
           !.session_events = @ + 1]
    /\ UNCHANGED tasks
    /\ ChatUnchanged

\* the clock: settings.session_timeout_minutes pass without activity on a
\* session
ChatSessionIdles ==
    /\ globals.session_events < MaxSessionEvents
    /\ \E session_id \in DOMAIN globals._sessions :
          /\ ~globals._sessions[session_id].idle
          /\ globals' = [globals EXCEPT !._sessions[session_id].idle = TRUE,
                                        !.session_events = @ + 1]
    /\ UNCHANGED tasks
    /\ ChatUnchanged

ChatNext ==
    \/ ChatStart
    \/ ChatStream
    \/ ChatNodeCall
    \/ ChatStep
    \/ ChatReturn
    \/ ConfirmQuery
    \/ ChatTerminateSession
    \/ ChatCleanupExpiredSessions
    \/ ChatSessionIdles

\* several chat requests, each in a world of its own
ChatSpec == ChatInit /\ [][ChatNext]_vars

\* one chat request and what happens to sessions meanwhile
Next ==
    \/ ChatStart
    \/ ChatStream
    \/ ChatNodeCall
    \/ ChatStep
    \/ ChatReturn
    \/ ChatTerminateSession
    \/ ChatCleanupExpiredSessions
    \/ ChatSessionIdles

\* one chat request in any world
Spec == Init /\ [][Next]_vars

\* every generator that can be resumed is resumed and every node call returns
FairSpec == Spec /\ WF_vars(ChatStart \/ ChatStream \/ ChatNodeCall \/ ChatStep \/ ChatReturn)

-----------------------------------------------------------------------------
(* validate_query_semantic_sync: the rule-based check that runs without an  *)
(* LLM, called directly on one statement per behaviour                      *)

PatternSelectLists ==
    { <<"SELECT", "*">>, <<"select", "id">>, <<"SELECT", "token">>,
      <<"SELECT", "id", ",", "password_hash">>, <<"SELECT", "\n", "name">> }

PatternFromClauses ==
    { <<"FROM", "orders">>, <<"FROM", "pg_shadow">>, <<"FROM", "information_schema">> }

PatternClauses ==
    { <<"WHERE", "token", "=", "1">>,
      <<"WHERE", "id", "=", "1", "OR", "1", "=", "1">>,
      <<"--", "drop", "\n">>,
      <<";", "DELETE", "FROM", "orders">>,
      <<";">> }

\* up to MaxClauses clauses of PatternClauses
RECURSIVE PatternClauseLists(_)
PatternClauseLists(n) ==
    IF n = 0 THEN {<< >>}
    ELSE PatternClauseLists(n - 1)
         \cup {l \o c : l \in PatternClauseLists(n - 1), c \in PatternClauses}

PatternStatements ==
    {s \o f \o l : s \in PatternSelectLists, f \in PatternFromClauses,
                   l \in PatternClauseLists(MaxClauses)}

PatternInit ==
    /\ NoProcess
    /\ call \in {[fn |-> "semantic_sync", query |-> q] : q \in PatternStatements}
    /\ ret = NoCall

PatternCall ==
    /\ call.fn = "semantic_sync"
    /\ ret = NoCall
    /\ ret' = validate_query_semantic_sync(call.query)
    /\ UNCHANGED <<call, globals, tasks>>

PatternSpec == PatternInit /\ [][PatternCall]_vars

-----------------------------------------------------------------------------
(* Direct calls of the nodes and of the routers, one call per behaviour.   *)
(* A node is called on a state in the sectioned layout, as the graph holds *)
(* it, or on a state that holds every field under its own name, as the     *)
(* tests of tests/integration build it; for a state of the graph the call  *)
(* is followed by what the graph does with the returned dict.              *)

\* statements a node can find in the state; "\"orders\"" is the quoted
\* identifier "orders", which reads the table orders: the schema layer
\* removes it with the string literals and the pattern of
\* extract_tables_from_query does not match it
GateStatements ==
    { <<"SELECT", "*", "FROM", "orders">>,
      <<"SELECT", "*", "FROM", "drivers">>,
      <<"SELECT", "*", "FROM", "\"orders\"">>,
      <<"SELECT", "name", "FROM", "drivers", "JOIN", "\"orders\"">> }

\* the fields of a state at the start of a request
Fields(user_question, accessible_tables) ==
    [ user_question      |-> user_question,
      accessible_tables  |-> accessible_tables,
      messages           |-> << >>,
      database_schema    |-> {},
      relevant_tables    |-> {},
      generated_query    |-> NoQuery,
      generation_attempt |-> 0,
      query_id           |-> "",
      validation_errors  |-> << >>,
      is_query_valid     |-> FALSE,
      total_row_count    |-> 0,
      execution_error    |-> NoError,
      user_approved      |-> "None",
      final_response     |-> NoFinalResponse,
      response_format    |-> "table" ]

\* the state that holds the fields p in the sections of Text2SQLAgentState
Sectioned(p) ==
    [ input      |-> [user_question |-> p.user_question],
      auth       |-> [accessible_tables |-> p.accessible_tables],
      schema     |-> [database_schema |-> p.database_schema,
                      relevant_tables |-> p.relevant_tables],
      generation |-> [generated_query |-> p.generated_query,
                      generation_attempt |-> p.generation_attempt,
                      query_id |-> p.query_id],
      validation |-> [validation_errors |-> p.validation_errors,
                      is_query_valid |-> p.is_query_valid],
      execution  |-> [total_row_count |-> p.total_row_count,
                      execution_error |-> p.execution_error],
      response   |-> [user_approved |-> p.user_approved,
                      final_response |-> p.final_response,
                      response_format |-> p.response_format],
      messages   |-> p.messages ]

\* "sectioned": the state of the graph; "flat": every field under its own
\* name; "flat_test": the fields the states of test_human_in_loop.py hold,
\* accessible_tables not among them
Layouts == {"sectioned", "flat", "flat_test"}

StateOf(layout, p) ==
    CASE layout = "sectioned" -> Sectioned(p)
      [] layout = "flat" -> p
      [] layout = "flat_test" -> [k \in DOMAIN p \ {"accessible_tables"} |-> p[k]]

\* the state in front of query_generation_node: n attempts were made
FieldsAtGeneration(user_question, accessible_tables, n, message_history) ==
    [Fields(user_question, accessible_tables) EXCEPT
        !.database_schema = DbTables, !.relevant_tables = DbTables,
        !.generation_attempt = n, !.messages = message_history]

\* the state in front of query_validation_node: a statement was generated
FieldsAtValidation(query, accessible_tables, n) ==
    [Fields("normal", accessible_tables) EXCEPT
        !.database_schema = DbTables, !.relevant_tables = DbTables,
        !.generated_query = query, !.generation_attempt = n,
        !.query_id = IF query = NoQuery THEN "" ELSE "uuid"]

\* the state in front of user_confirmation_node: the statement was validated
FieldsAtConfirmation(query) ==
    [FieldsAtValidation(query, DbTables, 1) EXCEPT !.is_query_valid = TRUE]

\* the state in front of query_execution_node: the statement was validated and approved
FieldsAtExecution(query, accessible_tables) ==
    [FieldsAtValidation(query, accessible_tables, 1) EXCEPT
        !.is_query_valid = TRUE, !.user_approved = "True"]

\* error messages a state in front of response_formatting_node can hold
FormattedErrors ==
    { NoError, EmptyMessage, Msg("cancelled", {}), Msg("permission_denied", {"ghost"}),
      Msg("generation_failed", {}), MsgOf("generation_error", "connection refused"),
      MsgOf("ConnectionError: ConnectionError", CancelText), Msg("Timeout", {}) }

\* the state in front of response_formatting_node
FieldsAtFormatting(user_approved, response_format, execution_error, validation_errors, n) ==
    [FieldsAtValidation(<<"SELECT", "*", "FROM", "orders">>, DbTables, MAX_VALIDATION_RETRIES)
     EXCEPT !.user_approved = user_approved, !.response_format = response_format,
            !.execution_error = execution_error, !.validation_errors = validation_errors,
            !.total_row_count = n]

\* the state in front of a router
FieldsAtRouter(query, n, is_query_valid, user_approved, execution_error) ==
    [FieldsAtValidation(query, DbTables, n) EXCEPT
        !.is_query_valid = is_query_valid, !.user_approved = user_approved,
        !.execution_error = execution_error]

Routers ==
    {"should_continue_after_schema", "should_continue_after_generation",
     "should_continue_after_validation", "should_continue_after_confirmation",
     "should_continue_after_execution"}

\* a direct call of fn on the state that holds the fields p in layout l
StageCall(fn, l, p) == [fn |-> fn, layout |-> l, fields |-> p, state |-> StateOf(l, p)]

StageInit ==
    /\ NoProcess
    /\ ret = NoCall
    /\ \/ \E l \in Layouts, q \in QuestionKinds, a \in AccessibleChoices,
            fetch \in FetchOutcomes :
              call = StageCall("schema_retrieval", l, Fields(q, a)) @@ [fetch |-> fetch]
       \/ \E l \in Layouts, q \in QuestionKinds, a \in AccessibleChoices,
            n \in 0..MAX_VALIDATION_RETRIES, h \in {<< >>, <<"human", "ai">>},
            llm \in LlmOutcomes :
              call = StageCall("query_generation", l, FieldsAtGeneration(q, a, n, h))
                     @@ [llm |-> llm]
       \/ \E l \in Layouts, q \in Queries \cup GateStatements \cup {NoQuery},
            a \in AccessibleChoices, n \in 1..MAX_VALIDATION_RETRIES,
            fetch \in FetchOutcomes, verdict \in LlmVerdicts :
              call = StageCall("query_validation", l, FieldsAtValidation(q, a, n))
                     @@ [fetch |-> fetch, verdict |-> verdict]
       \/ \E l \in Layouts, q \in Queries, auto \in BOOLEAN,
            user_response \in UserResponses \cup {NoResponse} :
              call = StageCall("user_confirmation", l, FieldsAtConfirmation(q))
                     @@ [auto |-> auto, user_response |-> user_response]
       \/ \E l \in Layouts, q \in Queries \cup GateStatements \cup {NoQuery},
            a \in AccessibleChoices, exec \in ExecOutcomes :
              call = StageCall("query_execution", l, FieldsAtExecution(q, a))
                     @@ [exec |-> exec]
       \/ \E l \in Layouts, ua \in {"None", "True", "False"},
            rf \in {"table", "summary", "error"}, e \in FormattedErrors,
            ve \in {<< >>, <<Msg("schema", {})>>}, n \in 0..MaxRows :
              call = StageCall("response_formatting", l, FieldsAtFormatting(ua, rf, e, ve, n))
       \/ \E r \in Routers, l \in Layouts,
            q \in {NoQuery, <<"SELECT", "*", "FROM", "orders">>},
            n \in 0..(MAX_VALIDATION_RETRIES + 1),
            v \in BOOLEAN, ua \in {"None", "True", "False"},
            e \in {NoError, Msg("cancelled", {}), Msg("generation_failed", {})} :
              call = StageCall(r, l, FieldsAtRouter(q, n, v, ua, e))
       \/ \E schema \in SUBSET AllTables, a \in AccessibleChoices :
              call = [fn |-> "filter_schema_by_accessible_tables", schema |-> schema,
                      accessible_tables |-> a]

\* what is left alone by a direct call
StageUnchanged == UNCHANGED <<call, globals, tasks>>

\* schema_retrieval_node(state)
SchemaRetrievalCall ==
    /\ call.fn = "schema_retrieval"
    /\ ret = NoCall
    /\ ret' = [update |-> schema_retrieval_node(call.state, call.fetch), step |-> "returned"]
    /\ StageUnchanged

\* query_generation_node(state); llm_called tells whether llm.ainvoke ran
QueryGenerationCall ==
    /\ call.fn = "query_generation"
    /\ ret = NoCall
    /\ ret' = [update |-> query_generation_node(call.state, call.llm),
               llm_called |-> ReachesLlm(call.state), step |-> "returned"]
    /\ StageUnchanged

\* query_validation_node(state)
QueryValidationCall ==
    /\ call.fn = "query_validation"
    /\ ret = NoCall
    /\ ret' = [update |-> query_validation_node(call.state, call.fetch, call.verdict),
               outcome |-> ValidationOutcome(call.state, call.fetch, call.verdict),
               step |-> "returned"]
    /\ StageUnchanged

\* user_confirmation_node(state) under settings.auto_confirm_queries = auto,
\* interrupt() returning user_response
UserConfirmationCall ==
    /\ call.fn = "user_confirmation"
    /\ ret = NoCall
    /\ ret' = [update |-> user_confirmation_node(call.state, call.auto, call.user_response),
               step |-> "returned"]
    /\ StageUnchanged

\* query_execution_node(state); executed tells whether the statement reached
\* the database
QueryExecutionCall ==
    /\ call.fn = "query_execution"
    /\ ret = NoCall
    /\ ret' = [update |-> query_execution_node(call.state, call.exec),
               executed |-> /\ ReachesExecutor(call.state)
                            /\ execute_safe_query(call.state.generation.generated_query, 0,
                                                  max_result_rows, call.exec).connected,
               step |-> "returned"]
    /\ StageUnchanged

\* response_formatting_node(state)
ResponseFormattingCall ==
    /\ call.fn = "response_formatting"
    /\ ret = NoCall
    /\ ret' = [update |-> response_formatting_node(call.state), step |-> "returned"]
    /\ StageUnchanged

\* the graph after the node returned: the returned dict is applied to the
\* state and the node's router picks the next node
GraphApply ==
    /\ call.fn \in GraphNodes
    /\ call.layout = "sectioned"
    /\ ret # NoCall
    /\ ret.step = "returned"
    /\ ~IsRaise(ret.update)
    /\ ~IsInterrupt(ret.update)
    /\ LET after == GraphStep(call.fn, call.state, ret.update)
       IN  ret' = [ret EXCEPT !.step = "applied"]
                     @@ [merged |-> after.state, next |-> after.pc]
    /\ StageUnchanged

SchemaRouterCall ==
    /\ call.fn = "should_continue_after_schema"
    /\ ret = NoCall
    /\ ret' = [label |-> should_continue_after_schema(call.state), step |-> "returned"]
    /\ StageUnchanged

GenerationRouterCall ==
    /\ call.fn = "should_continue_after_generation"
    /\ ret = NoCall
    /\ ret' = [label |-> should_continue_after_generation(call.state), step |-> "returned"]
    /\ StageUnchanged

ValidationRouterCall ==
    /\ call.fn = "should_continue_after_validation"
    /\ ret = NoCall
    /\ ret' = [label |-> should_continue_after_validation(call.state), step |-> "returned"]
    /\ StageUnchanged

ConfirmationRouterCall ==
    /\ call.fn = "should_continue_after_confirmation"
    /\ ret = NoCall
    /\ ret' = [label |-> should_continue_after_confirmation(call.state), step |-> "returned"]
    /\ StageUnchanged

ExecutionRouterCall ==
    /\ call.fn = "should_continue_after_execution"
    /\ ret = NoCall
    /\ ret' = [label |-> should_continue_after_execution(call.state), step |-> "returned"]
    /\ StageUnchanged

\* filter_schema_by_accessible_tables(schema, accessible_tables): `schema`
\* is the argument after the call
FilterCall ==
    /\ call.fn = "filter_schema_by_accessible_tables"
    /\ ret = NoCall
    /\ ret' = [filtered |-> filter_schema_by_accessible_tables(call.schema,
                                                              call.accessible_tables),
               schema |-> call.schema, step |-> "returned"]
    /\ StageUnchanged

StageNext ==
    \/ SchemaRetrievalCall
    \/ QueryGenerationCall
    \/ QueryValidationCall
    \/ UserConfirmationCall
    \/ QueryExecutionCall
    \/ ResponseFormattingCall
    \/ GraphApply
    \/ SchemaRouterCall
    \/ GenerationRouterCall
    \/ ValidationRouterCall
    \/ ConfirmationRouterCall
    \/ ExecutionRouterCall
    \/ FilterCall

StageSpec == StageInit /\ [][StageNext]_vars

-----------------------------------------------------------------------------
(* Properties *)

\* the direct call of fn has returned
Returned(fn) == call.fn = fn /\ ret # NoCall

\* the direct call of the node fn has returned a dict
ReturnedDict(fn) == Returned(fn) /\ ~IsRaise(ret.update) /\ ~IsInterrupt(ret.update)

\* the graph has applied the dict the node fn returned
Applied(fn) == Returned(fn) /\ ret.step = "applied"

\* the graph has applied the dict a node returned
AppliedAny == call.fn \in GraphNodes /\ ret # NoCall /\ ret.step = "applied"

\* state.update(result): the dict a caller holding a plain dict makes of a
\* node's result
Overlay(st, update) ==
    [k \in DOMAIN st \cup DOMAIN update |-> IF k \in DOMAIN update THEN update[k] ELSE st[k]]

AccessibleLower(accessible_tables) == {Lower(a) : a \in accessible_tables}

\* the tables a statement reads: the identifier after FROM or JOIN and every
\* further identifier of a comma-separated FROM list
ReferencedTables(query) ==
    { Lower(query[j]) : j \in { i \in 2..Len(query) :
          /\ query[i] \in Words
          /\ Upper(query[i]) \notin SQL_KEYWORDS
          /\ (Upper(query[i - 1]) \in {"FROM", "JOIN"} \/ query[i - 1] = ",") } }

\* the answer approves and carries no modified statement
ApprovesAsShown(user_response) ==
    /\ user_response.type \in {"bool", "dict"}
    /\ user_response.approved
    /\ ~SuppliesModifiedQuery(user_response)

\* the answer given at the confirmation is a rejection: approved is false, or
\* the value is neither a bool nor a dict
Rejects(user_response) ==
    /\ user_response.type # "none"
    /\ ~(user_response.type \in {"bool", "dict"} /\ user_response.approved)

\* C1: the routers send a run to user_confirmation only with is_query_valid
\* true, and to query_execution only with user_approved true and
\* is_query_valid true; the graph enters neither node any other way.
C1_ValidatedBeforeConfirmAndExecute ==
    /\ Returned("should_continue_after_validation")
          => (ret.label = "confirm" => call.fields.is_query_valid)
    /\ Returned("should_continue_after_confirmation")
          => (ret.label = "execute"
                 => call.fields.user_approved = "True" /\ call.fields.is_query_valid)
    /\ AppliedAny
          => /\ ret.next = "user_confirmation"
                   => call.fn = "query_validation" /\ ret.merged.validation.is_query_valid
             /\ ret.next = "query_execution"
                   => /\ call.fn = "user_confirmation"
                      /\ ret.merged.validation.is_query_valid

\* C1 case: the router after confirmation sent an approved, valid statement
\* to execution
C1_Witness ==
    /\ Returned("should_continue_after_confirmation")
    /\ call.layout = "flat"
    /\ call.fields.is_query_valid
    /\ call.fields.user_approved = "True"
    /\ ret.label = "execute"

\* C2: no statement that reads a table outside the principal's accessible
\* tables, in a FROM or JOIN position or in a comma-separated FROM list, is
\* accepted by the validation stage or handed to the executor.
C2_UnauthorizedNeverExecuted ==
    /\ (Returned("query_execution") /\ ret.executed)
          => ReferencedTables(call.fields.generated_query)
                \subseteq AccessibleLower(call.fields.accessible_tables)
    /\ (Returned("query_validation") /\ ret.outcome = "valid")
          => ReferencedTables(call.fields.generated_query)
                \subseteq AccessibleLower(call.fields.accessible_tables)

\* C3: with an empty accessible-table list, or one that filters the schema to
\* zero tables, the LLM is never invoked, nothing is validated, confirmed or
\* executed, and the run ends at END with the permission-denied error response.
C3_EndsPermissionDenied ==
    \A r \in ChatRuns :
        (filter_schema_by_accessible_tables(DbTables, tasks[r].request.accessible_tables) = {})
            => /\ tasks[r].llm_calls = 0
               /\ tasks[r].pc \notin {"query_validation", "user_confirmation",
                                      "query_execution"}
               /\ tasks[r].pc \in Ended
                     => /\ tasks[r].pc = "DONE"
                        /\ tasks[r].state.execution.execution_error.msg = "permission_denied"
                        /\ tasks[r].state.response.response_format = "error"

\* C4: when the answer at the confirmation approves and carries a
\* modified_query, the state then holds the modified statement as
\* generated_query with is_query_valid false, and the run goes to
\* query_validation.
C4_ModifiedQueryRevalidated ==
    (Applied("user_confirmation") /\ ~call.auto /\ SuppliesModifiedQuery(call.user_response))
        => /\ ret.merged.generation.generated_query = call.user_response.modified_query
           /\ ~ret.merged.validation.is_query_valid
           /\ ret.next = "query_validation"

\* C5: after a failing validation the run goes to error formatting when
\* generation_attempt >= MAX_VALIDATION_RETRIES, and to regeneration when
\* generation_attempt = MAX_VALIDATION_RETRIES - 1 after a semantic failure.
C5_RouterAtBound ==
    (Applied("query_validation") /\ ~ret.merged.validation.is_query_valid)
        => /\ ret.merged.generation.generation_attempt >= MAX_VALIDATION_RETRIES
                 => ret.next = "response_formatting"
           /\ (/\ ret.merged.generation.generation_attempt = MAX_VALIDATION_RETRIES - 1
               /\ ret.outcome = "semantic")
                 => ret.next = "query_generation"

\* C6: no stage execution decreases generation_attempt: the value in the
\* state after the graph applied a node's dict, and the value a node returns
\* under the field's own name, is at least the value the node was given.
C6_AttemptNeverDecreases ==
    (call.fn \in GraphNodes /\ ret # NoCall)
        => /\ ret.step = "applied"
                 => ret.merged.generation.generation_attempt
                        >= call.fields.generation_attempt
           /\ (call.layout # "sectioned" /\ "generation_attempt" \in DOMAIN ret.update)
                 => ret.update.generation_attempt >= call.fields.generation_attempt

\* C6 case: the third generation attempt yielded no SQL
C6_Witness ==
    /\ Returned("query_generation")
    /\ call.layout = "flat"
    /\ call.fields.generation_attempt = 2
    /\ "execution_error" \in DOMAIN ret.update
    /\ ret.update.execution_error.msg = "generation_failed"
    /\ ret.update.generation_attempt = 3

\* C7: every run reaches END and chat_endpoint finishes after it.
C7_AlwaysTerminates == <>(tasks[1].pc = "DONE")

C9_OnlySemanticRegenerates ==
    (Applied("query_validation") /\ ret.outcome \in {"keyword", "schema", "permission"})
        => ret.next = "response_formatting"

\* C10 as stated: a generation that yields no SQL below the bound is followed
\* by another generation.
C10_GenerationFailureRetried ==
    (/\ Returned("should_continue_after_generation")
     /\ call.fields.execution_error.msg = "generation_failed"
     /\ call.fields.generation_attempt < MAX_VALIDATION_RETRIES)
        => ret.label = "regenerate"

\* C10: a generation that yields no SQL, or raises, returns an empty
\* generated_query with an error message, and the router after generation
\* sends every state with an error message or without a statement to error
\* formatting, whatever generation_attempt is.
C10_GenerationFailureIsTerminal ==
    /\ (/\ Returned("should_continue_after_generation")
        /\ (Truthy(call.fields.execution_error) \/ call.fields.generated_query = NoQuery))
          => ret.label = "format_error"
    /\ (ReturnedDict("query_generation") /\ ret.llm_called
        /\ (call.llm.raises \/ call.llm.sql = NoQuery))
          => /\ ret.update.generated_query = NoQuery
             /\ Truthy(ret.update.execution_error)
             /\ should_continue_after_generation(Overlay(call.state, ret.update))
                   = "format_error"

\* C10 case: the router was given the state of a first generation that
\* yielded no SQL and sent it to error formatting
C10_Witness ==
    /\ Returned("should_continue_after_generation")
    /\ call.layout = "flat"
    /\ call.fields.execution_error.msg = "generation_failed"
    /\ call.fields.generation_attempt = 1
    /\ ret.label = "format_error"

-----------------------------------------------------------------------------
(* Properties of what a run shows to the user *)

\* C16: a permission-denied outcome shows a generic message only: no
\* user-visible field lists the unauthorized tables, so two statements that
\* differ only in the unauthorized tables they read give the same fields.
C16_NoTableNamesSurfaced ==
    /\ ReturnedDict("query_validation")
          => \A m \in Range(ret.update.validation.validation_errors) :
                m.msg = "permission_denied" => m.tables = {}
    /\ ReturnedDict("query_execution")
          => (ret.update.execution.execution_error.msg = "permission_denied"
                 => ret.update.execution.execution_error.tables = {})

\* C17: after an infrastructure failure (schema fetch, LLM client, database
\* driver) the message the stage leaves for the user, execution_error and
\* final_response, is a generic one and holds no part of the text of the
\* exception.
C17_NoRawExceptionText ==
    /\ ReturnedDict("schema_retrieval")
          => ("execution" \in DOMAIN ret.update
                 => ret.update.execution.execution_error.detail = "None")
    /\ ReturnedDict("query_generation")
          => ("execution_error" \in DOMAIN ret.update
                 => ret.update.execution_error.detail = "None")
    /\ ReturnedDict("query_execution")
          => ret.update.execution.execution_error.detail = "None"
    /\ ReturnedDict("response_formatting")
          => ret.update.final_response.quoted.detail = "None"

\* C18: a failure of schema retrieval is caught and the run goes to
\* response_formatting, and no exception leaves the workflow.
C18_FailuresRoutedToFormatting ==
    [][/\ (tasks[1].pc = "schema_retrieval"
           /\ tasks'[1].state.execution.execution_error.msg
                 \in {"schema_unavailable", "schema_unavailable: ConnectionError"})
              => tasks'[1].pc = "response_formatting"
       /\ tasks'[1].pc # "EXCEPTION"]_vars

\* the runs confirm_query started
ConfirmRuns == {i \in 1..Len(tasks) : tasks[i].kind = "confirm"}

\* C22: a confirm call whose query_id is not the query_id of a confirmation
\* pending on its session is rejected by the endpoint: the graph is not
\* resumed for it and the call ends in the endpoint's answer, not in an
\* exception.
C22_ConfirmChecksQueryId ==
    \A i \in ConfirmRuns :
        tasks[i].query_id # tasks[i].pending
           => ~tasks[i].streamed /\ tasks[i].raised = "None"

\* C23: with auto-confirmation disabled the run stops at user_confirmation
\* with a confirmation request for the statement and query_id the state
\* holds, and a resume that approves goes on to query_execution with that
\* statement.
C23_SuspendAndResume ==
    /\ (Returned("user_confirmation") /\ call.layout = "sectioned" /\ ~call.auto
        /\ call.user_response = NoResponse)
          => /\ IsInterrupt(ret.update)
             /\ ret.update.interrupt.query = call.fields.generated_query
             /\ ret.update.interrupt.query_id = call.fields.query_id
    /\ (Applied("user_confirmation") /\ ~call.auto /\ ApprovesAsShown(call.user_response))
          => /\ ret.next = "query_execution"
             /\ ret.merged.generation.generated_query = call.fields.generated_query

\* C24: no stage changes the authorization section: the state after the
\* graph applied a node's dict holds the section the node was given, no node
\* returns the section or the list, the schema a non-empty list lets through
\* is the snapshot filtered by it, and a statement the validation stage
\* accepts or the execution stage runs reads only tables of that list.
C24_AccessListImmutable ==
    (call.fn \in GraphNodes /\ ret # NoCall)
        => /\ ret.step = "applied" => ret.merged.auth = call.state.auth
           /\ DOMAIN ret.update \cap {"auth", "accessible_tables"} = {}
           /\ (call.layout = "sectioned" /\ call.fields.accessible_tables # {})
                 => /\ (call.fn = "schema_retrieval" /\ "execution" \notin DOMAIN ret.update)
                          => ret.update.schema.database_schema
                               = filter_schema_by_accessible_tables(
                                     DbTables, call.fields.accessible_tables)
                    /\ (call.fn = "query_validation" /\ ret.outcome = "valid")
                          => UnauthorizedTables(call.fields.generated_query,
                                                call.fields.accessible_tables) = {}
                    /\ (call.fn = "query_execution" /\ ret.executed)
                          => UnauthorizedTables(call.fields.generated_query,
                                                call.fields.accessible_tables) = {}

\* C24 case: a validation of a principal with one table failed and the run
\* goes back to generation with the list it started with
C24_Witness ==
    /\ Applied("query_validation")
    /\ call.fields.accessible_tables = {"orders"}
    /\ ret.next = "query_generation"
    /\ ret.merged.auth.accessible_tables = {"orders"}

\* what is compared of a request: where its generator is, the workflow
\* state of its run, the latest node_output and the events yielded
View(run) ==
    [pc |-> run.pc, running |-> run.running, state |-> run.state,
     final_state |-> run.final_state, events |-> run.events, llm_calls |-> run.llm_calls]

\* the next point of a request that has the event loop to itself
AloneStep(run, g) ==
    CASE run.pc \in {"start", "sent_session"} -> StartStep(run, g)
      [] run.pc = "sent_status" -> StreamStep(run, g)
      [] run.pc \in GraphNodes /\ ~run.running ->
            [run |-> [run EXCEPT !.running = TRUE], globals |-> g]
      [] run.pc \in ClosingPoints -> CloseStep(run, g)
      [] OTHER ->
            LET update == RunUpdate(run, ChatEnv(run.request.world, g.auto_confirm,
                                                 NoResponse))
            IN  StreamLoopStep(run, update, RunAfter(run, update), g)

\* what a chat request goes through when it runs alone, from `run` on, and
\* how it ends
RECURSIVE AloneViews(_, _)
AloneViews(run, g) ==
    IF run.pc \in Ended THEN {View(run)}
    ELSE {View(run)} \cup AloneViews(AloneStep(run, g).run, AloneStep(run, g).globals)

RECURSIVE RunAlone(_, _)
RunAlone(run, g) ==
    IF run.pc \in Ended THEN run
    ELSE RunAlone(AloneStep(run, g).run, AloneStep(run, g).globals)

\* chat request r alone: no session named, no other request, no confirm call
\* and no session terminated or timed out
Alone(r) == ChatRun(ChatRequest(r), 0)

\* the points chat request r goes through alone under
\* settings.auto_confirm_queries = auto
AlonePoints ==
    [r \in 1..NumRequests |->
        [auto \in BOOLEAN |-> AloneViews(Alone(r), ChatGlobals(auto))]]

\* the events chat request r ends with alone
AloneEvents ==
    [r \in 1..NumRequests |->
        [auto \in BOOLEAN |-> RunAlone(Alone(r), ChatGlobals(auto)).events]]

C30_FailedValidationReportsError ==
    (/\ ReturnedDict("response_formatting")
     /\ call.layout = "sectioned"
     /\ call.fields.validation_errors # << >>
     /\ ~call.fields.is_query_valid
     /\ call.fields.user_approved # "False")
        => /\ ret.update.response_format = "error"
           /\ ret.update.final_response.text \notin {"empty", "table"}

\* C31: generation_attempt stays within 0..MAX_VALIDATION_RETRIES, and a
\* stage other than generation leaves it as it is.
C31_AttemptCountsGenerations ==
    AppliedAny
        => /\ ret.merged.generation.generation_attempt \in 0..MAX_VALIDATION_RETRIES
           /\ call.fn # "query_generation"
                 => ret.merged.generation.generation_attempt
                        = call.fields.generation_attempt

\* where the graph goes after a validation that failed in the schema layer
\* and left the attempt counter as `merged` holds it
RouteOfBadSql(merged) ==
    NextNode("query_validation",
             Merge(merged, [validation |->
                               update_validation(merged, FALSE, <<Msg("schema", {})>>)]))

\* C32: a failure of the permission re-check in the validation stage is routed
\* by its category: the run does not take the route that a keyword, schema or
\* semantic failure takes at the same attempt count.
C32_ForbiddenRoutedApart ==
    (Applied("query_validation") /\ ret.outcome = "permission")
        => ret.next # RouteOfBadSql(ret.merged)

\* C33: the validation stage and the execution stage leave every section
\* they do not own as it was: no field of it is dropped or overwritten.
C33_SectionsOwnedByStage ==
    /\ Applied("query_validation")
          => \A section \in DOMAIN call.state \ {"validation"} :
                ret.merged[section] = call.state[section]
    /\ Applied("query_execution")
          => \A section \in DOMAIN call.state \ {"execution"} :
                ret.merged[section] = call.state[section]

\* C34: when the answer at the confirmation is a rejection, user_approved is
\* false in the state and the run goes to response formatting.
C34_RejectionCancels ==
    (Applied("user_confirmation") /\ ~call.auto /\ Rejects(call.user_response))
        => /\ ret.merged.response.user_approved = "False"
           /\ ret.next = "response_formatting"

\* what the filter returns: tables of the schema that are in the list, every
\* one of them, nothing for the empty list, and the schema it was given is as
\* it was
FilterKeepsAccessibleOnly ==
    Returned("filter_schema_by_accessible_tables")
        => /\ ret.filtered \subseteq call.schema
           /\ \A t \in call.schema :
                 t \in ret.filtered <=> Lower(t) \in AccessibleLower(call.accessible_tables)
           /\ call.accessible_tables = {} => ret.filtered = {}
           /\ ret.schema = call.schema

\* C35: the generator is invoked only for a principal with a non-empty
\* accessible-table list, the schema the retrieval stage places in the state
\* for such a principal holds only tables of the list, and the filter returns
\* the accessible tables of the schema it is given, the empty schema for the
\* empty list, without changing its argument.
C35_GeneratorSeesAccessibleOnly ==
    /\ FilterKeepsAccessibleOnly
    /\ (Returned("query_generation") /\ ret.llm_called)
          => call.fields.accessible_tables # {}
    /\ (ReturnedDict("schema_retrieval") /\ call.layout = "sectioned"
        /\ call.fields.accessible_tables # {})
          => \A t \in ret.update.schema.database_schema :
                Lower(t) \in AccessibleLower(call.fields.accessible_tables)

\* C35 case: the retrieval stage placed the one table a principal may read
\* in the state
C35_Witness ==
    /\ ReturnedDict("schema_retrieval")
    /\ call.layout = "sectioned"
    /\ call.fields.accessible_tables = {"orders", "ghost"}
    /\ ret.update.schema.database_schema = {"orders"}

\* the permission check has nothing to compare: the statement is not empty
\* and either no table could be extracted from it or the accessible-table
\* list is empty
NothingToCompare(p) ==
    /\ Strip(p.generated_query) # << >>
    /\ \/ extract_tables_from_query(p.generated_query) = {}
       \/ p.accessible_tables = {}

\* C37: when table extraction yields no table for a non-empty statement, or
\* the accessible-table list is empty, the validation stage does not accept
\* the statement and the execution stage does not execute it.
C37_PermissionCheckFailsClosed ==
    (/\ call.fn \in {"query_validation", "query_execution"}
     /\ ret # NoCall
     /\ call.layout = "sectioned"
     /\ NothingToCompare(call.fields))
        => IF call.fn = "query_validation"
           THEN ~ret.update.validation.is_query_valid
           ELSE ~ret.executed

\* the statement query_execution_node passes to the executor on the state st
ExecutorStatement(st) == st.generation.generated_query

\* C38: with auto-confirmation disabled, the statement the executor is given
\* is the text the confirmation request showed: the request shows the
\* statement query_execution_node reads from the state, the graph goes to
\* query_execution only from the confirmation, on an answer that approves the
\* statement as shown and with that statement still in the state, the router
\* after validation sends a valid statement to confirmation whatever approval
\* the state holds, and an answer that carries a modified statement sends
\* the run to validation.
C38_ExecutesOnlyApprovedText ==
    /\ (/\ Returned("user_confirmation") /\ ~call.auto
        /\ call.user_response = NoResponse
        /\ "generation" \in DOMAIN call.state)
          => /\ IsInterrupt(ret.update)
             /\ ret.update.interrupt.query = ExecutorStatement(call.state)
    /\ (Applied("user_confirmation") /\ ~call.auto /\ ret.next = "query_execution")
          => /\ ApprovesAsShown(call.user_response)
             /\ ExecutorStatement(ret.merged) = ExecutorStatement(call.state)
    /\ (AppliedAny /\ ret.next = "query_execution") => call.fn = "user_confirmation"
    /\ Returned("should_continue_after_validation")
          => /\ ret.label # "execute"
             /\ (call.layout # "sectioned" /\ call.fields.is_query_valid)
                   => ret.label = "confirm"
    /\ (/\ Returned("user_confirmation") /\ call.layout # "sectioned" /\ ~call.auto
        /\ SuppliesModifiedQuery(call.user_response))
          => should_continue_after_confirmation(Overlay(call.state, ret.update))
                = "revalidate"

-----------------------------------------------------------------------------
(* Properties of the validators and of the executor called directly *)

\* the denylist the keyword layer is specified with
SpecifiedDenylist ==
    {"UPDATE", "DELETE", "INSERT", "DROP", "ALTER", "TRUNCATE", "GRANT", "REVOKE",
     "CREATE", "MODIFY", "EXEC", "EXECUTE", "MERGE", "UPSERT", "RENAME", "CALL",
     "COPY", "VACUUM", "ANALYZE", "REINDEX", "CLUSTER", "REFRESH", "COMMIT",
     "ROLLBACK", "SAVEPOINT", "SET", "RESET", "LOAD"}

\* the words of a statement that stand outside its comments and string literals, upper-cased
WordsOutside(query) == {Upper(t) : t \in Range(clean_query(query)) \cap Words}

\* the tokens of a statement that stand inside its string literals only
InLiteralsOnly(query) == Range(RemoveComments(query)) \ Range(clean_query(query))

\* C11: whenever a keyword of the specified denylist occurs as a whole word
\* outside string literals and comments, in any letter case, the keyword
\* validator returns is_valid = FALSE and its detected_keywords holds every
\* such keyword that occurs.
C11_DenylistedKeywordsReported ==
    (call.fn = "keyword" /\ ret # NoCall)
        => LET occurring == WordsOutside(call.query) \cap SpecifiedDenylist
           IN  occurring # {}
                   => ~ret.is_valid /\ occurring \subseteq ret.detected_keywords

\* C12: a SELECT statement whose only occurrences of denylisted keyword text
\* are inside quoted string literals passes the keyword layer: is_valid = TRUE
\* and no detected keyword.
C12_KeywordInLiteralPasses ==
    (call.fn = "keyword" /\ ret # NoCall)
        => LET denylisted == {t \in Range(call.query) \cap Words : Upper(t) \in SpecifiedDenylist}
               first == Strip(clean_query(call.query))
           IN  (/\ first # << >> /\ Upper(first[1]) = "SELECT"
                /\ denylisted # {}
                /\ denylisted \subseteq InLiteralsOnly(call.query))
                   => ret.is_valid /\ ret.detected_keywords = {}

\* TRUE when token i of a statement names a table: it follows FROM or JOIN,
\* or a comma that follows a table of the same FROM list
RECURSIVE IsTablePosition(_, _)
IsTablePosition(query, i) ==
    /\ i >= 2
    /\ query[i] \in Words
    /\ Upper(query[i]) \notin SQL_KEYWORDS
    /\ \/ Upper(query[i - 1]) \in {"FROM", "JOIN"}
       \/ query[i - 1] = "," /\ i >= 3 /\ IsTablePosition(query, i - 2)

\* the tables a statement reads, in its FROM lists, JOINs and subqueries
TablesRead(query) ==
    LET cleaned == clean_query(query)
    IN  {Lower(cleaned[i]) : i \in {j \in 1..Len(cleaned) : IsTablePosition(cleaned, j)}}

\* the columns a statement names, in its SELECT list, WHERE clause and ON conditions
ColumnsRead(query) ==
    LET cleaned == clean_query(query)
    IN  {Lower(cleaned[i]) : i \in {j \in 1..Len(cleaned) :
            /\ cleaned[j] \in Words
            /\ Upper(cleaned[j]) \notin SQL_KEYWORDS \cup SpecifiedDenylist
            /\ ~IsTablePosition(cleaned, j)}}

\* C13: for every schema, a statement that reads only tables and columns of
\* the schema is reported valid, and a statement that reads a table absent
\* from the schema (in a FROM clause, as a further element of a
\* comma-separated FROM list, in a JOIN or in a subquery) is reported invalid
\* with every such table in invalid_tables.
C13_SchemaTablesChecked ==
    (call.fn = "schema" /\ ret # NoCall)
        => LET tables == TablesRead(call.query)
               present == {Lower(t) : t \in call.schema}
           IN  /\ (/\ tables \subseteq present
                   /\ \A c \in ColumnsRead(call.query) : \E t \in tables : c \in DbColumns(t))
                      => ret.is_valid
               /\ tables \ present # {}
                      => ~ret.is_valid /\ (tables \ present) \subseteq ret.invalid_tables

\* C14: when every table a statement reads exists, a column that is in none
\* of those tables is reported in invalid_columns, with is_valid = FALSE,
\* wherever the statement names it: SELECT list, WHERE clause or ON condition.
C14_UnknownColumnsReported ==
    (call.fn = "schema" /\ ret # NoCall)
        => LET tables == TablesRead(call.query)
           IN  (tables # {} /\ tables \subseteq {Lower(t) : t \in call.schema})
                   => \A c \in ColumnsRead(call.query) :
                          (\A t \in tables : c \notin DbColumns(t))
                              => ~ret.is_valid /\ c \in ret.invalid_columns

RowLimit == IF call.max_rows = 0 THEN call.max_result_rows ELSE call.max_rows

Min(a, b) == IF a <= b THEN a ELSE b

\* C19: a successful execution that fetched n rows under row limit maxRows
\* has total_row_count = n and returned_row_count = min(n, maxRows), returns
\* the first min(n, maxRows) fetched rows in order, and is_truncated holds
\* exactly when n > maxRows, which is when returned_row_count < total_row_count.
C19_TruncationAccounting ==
    (call.fn = "executor" /\ ret # NoCall /\ ret.error = "None")
        => LET n == call.db.n
               kept == Min(n, RowLimit)
           IN  /\ ret.total_row_count = n
               /\ ret.returned_row_count = kept
               /\ ret.rows = SubSeq(Fetched(n), 1, kept)
               /\ ret.is_truncated <=> n > RowLimit
               /\ ret.is_truncated <=> ret.returned_row_count < ret.total_row_count

C19_Witness ==
    /\ call.fn = "executor" /\ ret # NoCall /\ ret.error = "None"
    /\ ret.is_truncated
    /\ ret.total_row_count = MaxFetched
    /\ ret.rows = <<1, 2>>

\* C20: the executor fails with Dangerous, before a database connection is
\* acquired, for every statement that has a keyword of its denylist as a word
\* or that is not a SELECT; it fails with Timeout exactly when the statement
\* was cancelled by the database; every other lower-level failure is reported
\* as ConnectionError; no other error kind escapes and a failure returns no rows.
C20_ExecutorErrorContract ==
    (call.fn = "executor" /\ ret # NoCall)
        => LET first == Strip(call.query)
               dangerous ==
                   \/ WordsOutside(call.query) \cap EXECUTOR_DANGEROUS_KEYWORDS # {}
                   \/ first = << >>
                   \/ Upper(first[1]) # "SELECT"
           IN  /\ dangerous => ret.error = "Dangerous" /\ ~ret.connected
               /\ ret.error = "Timeout"
                      <=> (ret.connected /\ call.db.kind = "QueryCanceledError")
               /\ (ret.connected /\ call.db.kind \in {"PostgresError", "Exception"})
                      => ret.error = "ConnectionError"
               /\ ret.error \in {"None", "Dangerous", "Timeout", "ConnectionError"}
               /\ ret.error # "None" => ret.rows = << >>

-----------------------------------------------------------------------------
(* Properties of the permission lookup, the session store, the connection,
   the schema cache and the pattern pre-filter *)

\* C28: a CTE query over existing tables and columns passes the keyword
\* layer, is valid for the schema layer (the name the WITH clause defines is
\* not an invalid table), and is accepted by the executor's checks before the
\* connection.
C28_CteSupported ==
    (call.fn = "schema" /\ call.query \in CteStatements /\ call.schema = DbTables
        /\ ret # NoCall)
        => /\ KeywordValidate(call.query).is_valid
           /\ ret.is_valid
           /\ "recent" \notin ret.invalid_tables
           /\ execute_safe_query(call.query, 0, max_result_rows,
                                 [kind |-> "rows", n |-> 0, text |-> "None"]).error = "None"

\* C27: for a principal whose roles contain admin, get_accessible_tables
\* returns every table of the schema, for read and for write, whatever rows
\* the permission store holds.
C27_AdminGetsEveryTable ==
    (call.fn = "permissions" /\ ret # NoCall /\ "admin" \in call.roles)
        => ret.tables = DbTables

\* C29: after any sequence of add_message_to_session calls on a session, its
\* message_history has at most max_message_history entries and is the most
\* recently added messages, those added since the history was last emptied,
\* in the order they were added.
C29_HistoryBounded ==
    (globals.kind = "sessions")
        => \A s \in DOMAIN globals._sessions :
              LET history == globals._sessions[s].message_history
                  n == Len(call.added)
              IN  /\ Len(history) <= max_message_history
                  /\ Len(history) = Min(n, max_message_history)
                  /\ history = SubSeq(call.added, n - Len(history) + 1, n)

\* C29 case: an active session took two messages more than the history
\* keeps and holds the latest ten
C29_Witness ==
    /\ globals.kind = "sessions"
    /\ ret.fn = "add_message_to_session" /\ ret.raises = "None"
    /\ Len(call.added) = max_message_history + 2
    /\ call.added[1] = "user" /\ call.added[2] = "assistant" /\ call.added[3] = "user"
    /\ \E s \in DOMAIN globals._sessions :
          /\ globals._sessions[s].status = "ACTIVE"
          /\ Len(globals._sessions[s].message_history) = max_message_history
          /\ globals._sessions[s].message_history[1] = "user"

\* position in session.executed of the first statement equal to s, 0 when
\* there is none
ExecutedAt(session, s) ==
    LET at == {i \in 1..Len(session.executed) : session.executed[i].statement = s}
    IN  IF at = {} THEN 0 ELSE CHOOSE i \in at : \A j \in at : i <= j

\* C21: for every statement the executor runs, the read-only mode and the
\* statement timeout were set on the same connection before the statement
\* was sent, the statement runs inside that read-only transaction, and a
\* data-modifying statement does not take effect.
C21_RunsInReadOnlyTransaction ==
    (globals.kind = "database" /\ ExecutedAt(globals.session, "query") # 0)
        => LET session == globals.session
               ro == ExecutedAt(session, "SET TRANSACTION READ ONLY")
               to == ExecutedAt(session, "SET statement_timeout")
               q == ExecutedAt(session, "query")
           IN  /\ ro # 0 /\ ro < q
               /\ to # 0 /\ to < q
               /\ session.executed[q].statement_timeout = query_timeout_ms
               /\ session.executed[q].transaction = session.executed[ro].transaction
               /\ session.executed[q].read_only
               /\ ~session.written

\* a snapshot built from the rows of every query
IsComplete(snapshot) == snapshot.parts = Range(SchemaQueries)

\* the cached snapshot and its timestamp are both set or both unset, and the
\* cached snapshot and every snapshot a coroutine holds are complete
CacheConsistent ==
    (globals.kind = "schema_cache")
        => /\ (globals._schema_cache = 0) <=> (globals._cache_updated_at = 0)
           /\ globals._schema_cache # 0 => IsComplete(globals.heap[globals._schema_cache])
           /\ \A t \in 1..NumCoroutines :
                 tasks[t].schema # 0 => IsComplete(globals.heap[tasks[t].schema])

\* no step changes an object that exists
SnapshotsImmutable ==
    (globals.kind = "schema_cache")
        => \A r \in 1..Len(globals.heap) : globals'.heap[r] = globals.heap[r]

\* C25: a refresh builds a new snapshot and replaces the cache reference in
\* one step; a snapshot handed to a reader is never changed afterwards, every
\* reader observes a complete snapshot, and the cached snapshot and its
\* timestamp are always both set or both unset.
C25_CopyOnWriteRefresh == []CacheConsistent /\ [][SnapshotsImmutable]_vars

\* a reader holds the first snapshot while a refresh has replaced it in the cache
C25_Witness ==
    /\ globals.kind = "schema_cache"
    /\ globals._schema_cache = 2
    /\ tasks[1].schema = 1
    /\ tasks[2].schema = 2

\* C36: the rule-based pre-filter rejects every statement that holds an
\* injection marker (OR 1=1, a dangling --, a ; followed by more), names a
\* system catalog or has a sensitive column name in its projection list, and
\* it does not reject a statement whose only finding is a sensitive column
\* name outside the projection list.
C36_PreFilterRejectsMarkers ==
    (call.fn = "semantic_sync" /\ ret # NoCall)
        => /\ MustBeRejected(call.query) => ~ret.is_valid
           /\ (/\ ~MustBeRejected(call.query)
               /\ Cardinality({i \in 1..Len(call.query) : call.query[i] = ";"}) <= 1)
                 => ret.is_valid

\* coroutine t's call of get_database_schema returns the cached snapshot
ReturnsCached(t) ==
    /\ tasks[t].pc = "idle"
    /\ tasks'[t].pc = "idle"
    /\ tasks'[t].calls = tasks[t].calls + 1
    /\ globals' = globals
    /\ tasks'[t].schema = globals._schema_cache

\* a call that returns from the cache does not return a snapshot whose fetch
\* was in flight when the cache was cleared
NoStaleSnapshotReturned ==
    (globals.kind = "schema_cache")
        => \A t \in 1..NumCoroutines : ReturnsCached(t) => ~globals.cached_stale

\* C39: after clear_schema_cache() has completed, no later call of
\* get_database_schema() returns a snapshot whose database fetch began before
\* that invalidation, also when a refresh of another request was in flight
\* when the cache was cleared.
C39_InvalidationNotLost == [][NoStaleSnapshotReturned]_vars

=============================================================================
